---- MODULE Spec2Model ----
(***************************************************************************)
(* A model of the reactive component runtime of ratatui-kit: the tree      *)
(* reconciler (ComponentUpdater::update_children over the two multimaps),  *)
(* the hook slot sequence (Hooks::use_hook), the State cell                *)
(* (StateMutRef / UseStateImpl::poll_change), the change aggregation       *)
(* (InstantiatedComponent::poll_change) and the render loop                *)
(* (Tree::render_loop).                                                    *)
(*                                                                         *)
(* Indices are 1-based here (TLA+ sequences) where the Rust code is        *)
(* 0-based; hook_index keeps the Rust value and is used as hook_index + 1. *)
(***************************************************************************)
EXTENDS Integers, Sequences, FiniteSets, TLC

\* ------------------------------------------------------------------------
\* Bounds of the model
\* ------------------------------------------------------------------------
NumKeys == 2
MaxChildren == 2
MaxSub == 1
MaxInst == 5

\* ------------------------------------------------------------------------
\* Elements: what a parent hands to update_children
\* ------------------------------------------------------------------------
Keys == 1..NumKeys
RootKey == 0
Types == {"A", "B"}
None == 0

SeqUpTo(S, n) == UNION {[1..m -> S] : m \in 0..n}

\* A "B" element is a container whose children are "A" leaves; an "A"
\* element has none.
LeafElems == [key : {1}, type : {"A"}, children : {<<>>}]
SubLists == SeqUpTo(LeafElems, MaxSub)
ChildElems ==
    [key : Keys, type : {"A"}, children : {<<>>}]
        \cup [key : Keys, type : {"B"}, children : SubLists]
ChildLists == SeqUpTo(ChildElems, MaxChildren)

\* ------------------------------------------------------------------------
\* multimap.rs
\* ------------------------------------------------------------------------
EmptyMultimap == [items |-> <<>>, m |-> <<>>]

PushFront(mm, key, v) ==
    [items |-> <<v>> \o mm.items,
     m |-> [k \in DOMAIN mm.m \cup {key} |->
              (IF k = key THEN <<1>> ELSE <<>>)
                \o (IF k \in DOMAIN mm.m
                      THEN [i \in 1..Len(mm.m[k]) |-> mm.m[k][i] + 1]
                      ELSE <<>>)]]

PushBack(mm, key, v) ==
    LET index == Len(mm.items) + 1
    IN  [items |-> Append(mm.items, v),
         m |-> IF key \in DOMAIN mm.m
                 THEN [mm.m EXCEPT ![key] = Append(@, index)]
                 ELSE (key :> <<index>>) @@ mm.m]

\* A pop that takes the last instance stored under the key.
PopLastOfKey(mm, key) ==
    IF key \notin DOMAIN mm.m \/ mm.m[key] = <<>>
      THEN [mm |-> mm, v |-> None]
      ELSE LET index == mm.m[key][Len(mm.m[key])]
           IN  [mm |-> [items |-> [mm.items EXCEPT ![index] = None],
                        m |-> [mm.m EXCEPT ![key] = SubSeq(@, 1, Len(@) - 1)]],
                v |-> mm.items[index]]

\* RemoveOnlyMultimap::pop_front
PopFront(mm, key) ==
    IF key \notin DOMAIN mm.m \/ mm.m[key] = <<>>
      THEN [mm |-> mm, v |-> None]
      ELSE LET index == Head(mm.m[key])
           IN  [mm |-> [items |-> [mm.items EXCEPT ![index] = None],
                        m |-> [mm.m EXCEPT ![key] = Tail(@)]],
                v |-> mm.items[index]]

Iter(mm) == SelectSeq(mm.items, LAMBDA x : x # None)

\* ------------------------------------------------------------------------
\* hooks/mod.rs, hooks/use_state.rs, hooks/use_future.rs: the hook slots
\* ------------------------------------------------------------------------
\* UseStateImpl::new: the StateValue stored in the generational box.
NewState == [type |-> "state", value |-> 0, is_changed |-> FALSE, waker |-> FALSE]

\* UseFutureImpl::new: f = Some(future).
NewFuture == [type |-> "future", f |-> TRUE]

\* Hooks::new
NewHooks(hooks, first_update) ==
    [hooks |-> hooks, first_update |-> first_update, hook_index |-> 0,
     slot |-> None, panic |-> FALSE]

\* Hooks::use_hook(f) where f() = new. slot is the (1-based) position of the
\* returned hook, panic the failed expect("Hook type mismatch, ...").
UseHook(h, new) ==
    LET hs == IF h.first_update THEN Append(h.hooks, new) ELSE h.hooks
        idx == h.hook_index
        ok == idx + 1 <= Len(hs) /\ hs[idx + 1].type = new.type
    IN  [hooks |-> hs, first_update |-> h.first_update, hook_index |-> idx + 1,
         slot |-> IF ok THEN idx + 1 ELSE None, panic |-> ~ok]

\* The use_hook calls a component's update makes, in program order; the
\* first panic aborts the update.
RECURSIVE RunProgram(_, _)
RunProgram(h, prog) ==
    IF prog = <<>> \/ h.panic THEN h
    ELSE RunProgram(UseHook(h, Head(prog)), Tail(prog))

\* The components of the model: "A" is a counter-like component
\* (use_state), "B" registers a task and a state (use_future, use_state);
\* the root only reconciles its children.
HookProgram(type) ==
    CASE type = "A" -> <<NewState>>
      [] type = "B" -> <<NewFuture, NewState>>
      [] OTHER -> <<>>

\* ------------------------------------------------------------------------
\* component/instantiated_component.rs, render/updater.rs
\* ------------------------------------------------------------------------
InstIds == 1..MaxInst
RootId == 1

\* A slot of the arena that holds no instance (never built, or dropped).
NoInst ==
    [live |-> FALSE, key |-> RootKey, type |-> "none", hooks |-> <<>>,
     children |-> EmptyMultimap, first_update |-> FALSE]

\* InstantiatedComponent::new
NewInst(key, type) ==
    [live |-> TRUE, key |-> key, type |-> type, hooks |-> <<>>,
     children |-> EmptyMultimap, first_update |-> TRUE]

RootElem(elements) == [key |-> RootKey, type |-> "Root", children |-> elements]

RECURSIVE DropInst(_, _), DropAll(_, _)
DropInstShallow(st, id) ==
    [st EXCEPT !.arena[id] = NoInst, !.dropCount[id] = @ + 1,
               !.log = Append(@, [op |-> "drop", id |-> id, key |-> st.arena[id].key])]

\* Drop of an InstantiatedComponent: its hooks, then its children.
DropInst(st, id) ==
    LET kids == Iter(st.arena[id].children)
        st1 == [st EXCEPT !.arena[id] = NoInst, !.dropCount[id] = @ + 1,
                          !.log = Append(@, [op |-> "drop", id |-> id,
                                             key |-> st.arena[id].key])]
    IN  DropAll(st1, kids)

DropAll(st, ids) ==
    IF ids = <<>> THEN st ELSE DropAll(DropInst(st, Head(ids)), Tail(ids))

\* The guard of update_children's first match arm:
\* component.component().type_id() == child.helper().component_type_id()
TypeMatchesNever(inst, child) == FALSE

TypeMatchesAlways(inst, child) == TRUE

TypeMatches(inst, child) == inst.type = child.type

RECURSIVE UpdateChildrenLoop(_, _, _, _), UpdateInst(_, _, _)
\* The match arms of the loop body: the popped component is kept, or a new
\* InstantiatedComponent takes the child's place (cid is its identity).
PlaceChild(st, pid, child, pop, reuse, cid) ==
    [st EXCEPT !.arena[pid].children = pop.mm,
               !.arena[cid] = IF reuse THEN @ ELSE NewInst(child.key, child.type),
               !.nextId = IF reuse THEN @ ELSE @ + 1,
               !.log = Append(@, [op |-> IF reuse THEN "reuse" ELSE "new",
                                  id |-> cid, key |-> child.key])]

\* A popped component that was not kept goes out of scope.
DropReplaced(st, pop, reuse) ==
    IF ~reuse /\ pop.v # None THEN DropInst(st, pop.v) ELSE st

\* One iteration of the for loop of update_children, pop being what
\* used_components.pop_front(&child.key) returned.
UpdateChild(st, pid, elements, used_components, pop) ==
    LET child == Head(elements)
        reuse == pop.v # None /\ TypeMatches(st.arena[pop.v], child)
        cid == IF reuse THEN pop.v ELSE st.nextId
    IN  IF ~reuse /\ st.nextId > MaxInst
          THEN [st |-> [st EXCEPT !.arena[pid].children = pop.mm, !.overflow = TRUE],
                used |-> used_components]
          ELSE UpdateChildrenLoop(
                   UpdateInst(DropReplaced(PlaceChild(st, pid, child, pop, reuse, cid),
                                           pop, reuse),
                              cid, child),
                   pid, Tail(elements), PushBack(used_components, child.key, cid))

\* The for loop of update_children: one child per iteration.
UpdateChildrenLoop(st, pid, elements, used_components) ==
    IF elements = <<>> \/ st.panicked \/ st.overflow
      THEN [st |-> st, used |-> used_components]
      ELSE UpdateChild(st, pid, elements, used_components,
                       PopFront(st.arena[pid].children, Head(elements).key))

\* self.children.components = used_components.into(): the collection the
\* loop built replaces the old one, whose remaining components are dropped.
ReplaceChildren(r, pid) ==
    IF r.st.panicked \/ r.st.overflow THEN r.st
    ELSE DropAll([r.st EXCEPT !.arena[pid].children = r.used],
                 Iter(r.st.arena[pid].children))

\* ComponentUpdater::update_children(elements, None)
UpdateChildren(st, pid, elements) ==
    ReplaceChildren(UpdateChildrenLoop(st, pid, elements, EmptyMultimap), pid)

\* An update that reconciles the children before the component's own part.
ComponentUpdateChildrenFirst(st, id, elem, h) ==
    LET st1 == UpdateChildren(st, id, elem.children)
    IN  [st1 EXCEPT !.arena[id].hooks = h.hooks, !.panicked = h.panic,
                    !.log = Append(@, [op |-> "update", id |-> id,
                                       key |-> st.arena[id].key])]

\* The component's update, h being the Hooks handle after its use_hook
\* calls: a panic in them unwinds, otherwise the children are reconciled.
ComponentUpdate(st, id, elem, h) ==
    LET st1 == [st EXCEPT !.arena[id].hooks = h.hooks, !.panicked = h.panic,
                          !.log = Append(@, [op |-> "update", id |-> id,
                                             key |-> st.arena[id].key])]
    IN  IF h.panic THEN st1 ELSE UpdateChildren(st1, id, elem.children)

\* The end of InstantiatedComponent::update: self.first_update = false.
EndOfUpdate(st, id) ==
    IF st.panicked \/ st.overflow THEN st
    ELSE [st EXCEPT !.arena[id].first_update = FALSE,
                    !.log = Append(@, [op |-> "updated", id |-> id,
                                       key |-> st.arena[id].key])]

\* InstantiatedComponent::update
UpdateInst(st, id, elem) ==
    EndOfUpdate(ComponentUpdate(st, id, elem,
                                RunProgram(NewHooks(st.arena[id].hooks,
                                                    st.arena[id].first_update),
                                           HookProgram(st.arena[id].type))),
                id)

\* ------------------------------------------------------------------------
\* poll_change: hooks, Components, InstantiatedComponent
\* ------------------------------------------------------------------------
\* A poll of the state hook that reports a change whatever the flag says.
StatePollAlwaysReady(c, borrowed) ==
    [hook |-> [c EXCEPT !.is_changed = FALSE], ready |-> TRUE]

\* UseStateImpl::poll_change; borrowed: a guard on the cell is outstanding,
\* so that inner.try_write() fails.
StatePollChange(c, borrowed) ==
    IF ~borrowed
      THEN IF c.is_changed
             THEN [hook |-> [c EXCEPT !.is_changed = FALSE], ready |-> TRUE]
             ELSE [hook |-> [c EXCEPT !.waker = TRUE], ready |-> FALSE]
      ELSE [hook |-> c, ready |-> FALSE]

\* UseFutureImpl::poll_change; done: the stored future's poll is Ready.
FuturePollChange(c, done) ==
    [hook |-> IF c.f /\ done THEN [c EXCEPT !.f = FALSE] ELSE c, ready |-> FALSE]

HookPollChange(c, done) ==
    IF c.type = "state" THEN StatePollChange(c, FALSE) ELSE FuturePollChange(c, done)

\* Hook for Vec<Box<dyn AnyHook>>::poll_change
RECURSIVE HooksPollLoop(_, _, _, _)
HooksPollLoop(hooks, i, is_ready, done) ==
    IF i > Len(hooks) THEN [hooks |-> hooks, ready |-> is_ready]
    ELSE LET r == HookPollChange(hooks[i], done)
         IN  HooksPollLoop([hooks EXCEPT ![i] = r.hook], i + 1,
                           IF r.ready THEN TRUE ELSE is_ready, done)

HooksPollChange(hooks, done) == HooksPollLoop(hooks, 1, FALSE, done)

\* Component::poll_change: the default, which the components here keep.
ComponentPollChange(type) == FALSE

\* A combination that forgets the children.
PollStatusOwnOnly(component_status, children_status, hooks_status) ==
    component_status \/ hooks_status

\* What the three statuses of InstantiatedComponent::poll_change combine to.
PollStatus(component_status, children_status, hooks_status) ==
    component_status \/ children_status \/ hooks_status

RECURSIVE InstPollChange(_, _, _), ComponentsPollLoop(_, _, _, _)
\* The loop of Components::poll_change after the poll of the first of ids
\* returned r.
ComponentsPollNext(r, ids, is_ready, done) ==
    ComponentsPollLoop(r.ps, Tail(ids), IF r.ready THEN TRUE ELSE is_ready, done)

\* Components::poll_change over iter_mut()
ComponentsPollLoop(ps, ids, is_ready, done) ==
    IF ids = <<>> THEN [ps |-> ps, ready |-> is_ready]
    ELSE ComponentsPollNext(InstPollChange(ps, Head(ids), done), ids, is_ready, done)

\* The end of InstantiatedComponent::poll_change, c and h being what the
\* polls of the children and of the hooks returned; ps.res records what
\* each visited instance returned.
InstPollResult(id, component_status, c, h) ==
    LET ready == PollStatus(component_status, c.ready, h.ready)
    IN  [ps |-> [arena |-> [c.ps.arena EXCEPT ![id].hooks = h.hooks],
                 res |-> [c.ps.res EXCEPT ![id] = IF ready THEN "Ready" ELSE "Pending"]],
         ready |-> ready]

\* InstantiatedComponent::poll_change after the polls of the component and
\* of the children: the poll of the hooks.
InstPollHooks(id, done, component_status, c) ==
    InstPollResult(id, component_status, c, HooksPollChange(c.ps.arena[id].hooks, done))

\* InstantiatedComponent::poll_change
InstPollChange(ps, id, done) ==
    InstPollHooks(id, done, ComponentPollChange(ps.arena[id].type),
                  ComponentsPollLoop(ps, Iter(ps.arena[id].children), FALSE, done))

\* ------------------------------------------------------------------------
\* State of the component tree
\* ------------------------------------------------------------------------
\* arena: the InstantiatedComponents ever built, by identity;
\* dropCount: how often each was dropped; given: the child list handed to
\* the root's update_children by the last render (NoRender otherwise);
\* log: what the last render did, in order (reuse, new, drop, update,
\* updated); lastPoll: what poll_change returned for each instance in the
\* last poll.
VARIABLES arena, nextId, dropCount, panicked, given, log, lastPoll,
          slots, first_update, handles, in_update, calls, ret, req, hook_panic,
          cell, guard, readers, wake_count, result, last_op, prev_op,
          pc, order, hook_pos, pass_ready, woken, task, timer,
          term_queue, sub_queue, sub_waker, stale, tick,
          passes,
          stack, frames, guards, found, ctx_panic,
          owner_dropped,
          store, sguard, skeys, swakes, sop,
          hcells, hguard, copies, hread, hwritten,
          subscribers, t_alive, pending, t_waker, yielded, t_since, t_taken,
          received_ctrl_c, t_made, t_op,
          loop_result,
          memo, m_ret, m_called, m_first, m_deps, effect, e_called, e_deps,
          hist, h_panic, h_op,
          handlers, hd_taken, hd_op,
          rd_pc, rd_cell, rd_api, rd_ret,
          p_hooks, p_guards, p_result, p_since,
          lc_key, lc_hooks, lc_pc, lc_first, lc_updates, lc_polls, lc_panic,
          x_pc, should_exit, x_ctrl_c, x_passes, x_draws, x_awaits, x_result, x_exit_at, x_queue, x_changed,
          fu_hook, fu_first, fu_updates, fu_sched, fu_polls, fu_dropped, fu_done, fu_ret

\* The component tree held by Tree (render/tree.rs) and what the last
\* operation on it was given and did.
treeVars == <<arena, nextId, dropCount, panicked, given, log, lastPoll>>

\* One instance's hook list and the Hooks handles of the update in progress.
hookVars == <<slots, first_update, handles, in_update, calls, ret, req, hook_panic>>

\* One State cell, the write guard and the read guards on it, and what the
\* last operation did: the waker.wake() calls it made, what a poll returned,
\* which operation it was and which one came before it.
cellVars == <<cell, guard, readers, wake_count, result, last_op, prev_op>>

\* The render loop of Tree::render_loop over a root component that calls
\* use_state, use_future and use_events: where the loop is, the order of
\* the three hooks, the hook the current poll has reached and whether one
\* was Ready, whether the loop's waker was called, the use_future task and
\* its timer, the terminal's event stream, the use_events subscription,
\* and whether a mutation still waits for a pass (tick: parity of passes).
loopVars == <<pc, order, hook_pos, pass_ready, woken, task, timer,
              term_queue, sub_queue, sub_waker, stale, tick>>

\* The counter example (examples/counter.rs) under the render loop: the
\* number of Tree::render calls made so far.
counterVars == <<passes>>

\* The ContextStack of a render (context.rs): its entries from the root up,
\* each with the state of its RefCell; the update_children calls in
\* progress, innermost last; the Ref / RefMut guards that lookups returned
\* and that are still alive; what the last lookup returned.
ctxVars == <<stack, frames, guards, found, ctx_panic>>

\* What the tree, hook, cell and loop operations above leave alone.
\* Whether the Owner of the cell's storage (a field of the use_state hook)
\* has been dropped.
ownerVars == <<owner_dropped>>

\* The instances that call use_store on the one StoreState, and the element
\* keys they may have.
MaxConsumers == 2
Consumers == 1..MaxConsumers
StoreKeys == Keys

\* One StoreState cell (store/mod.rs) shared by the use_store hooks of
\* several consuming instances: the cell with its waker map (for each key,
\* the consumer whose waker is stored under it, None for no entry), the
\* write guard on it, each consumer's key (None until its first
\* post_component_update), how often the last operation invoked each
\* consumer's waker, and what the last operation was and returned.
storeVars == <<store, sguard, skeys, swakes, sop>>

\* The parts that the operations on trees, hooks, cells, loops and context
\* stacks leave alone.
baseVars == <<treeVars, hookVars, cellVars, loopVars, counterVars, ctxVars, ownerVars>>

\* The State cells of one instance's use_state hooks and the copies of their
\* handles: the value in each cell's slot, the one write guard outstanding
\* (slot None for no guard), the slot each copy of a handle points to, what
\* the last read returned and through which copy, and the value that the
\* last released mutating guard left in each slot.
MaxCells == 2
MaxCopies == 3
Cells == 1..MaxCells
copyVars == <<hcells, hguard, copies, hread, hwritten>>

\* The Terminal (terminal/mod.rs) and its event subscriptions: the
\* subscriber list (weak references, here the subscriptions' numbers), the
\* subscriptions whose TerminalEvents handle still exists, each one's
\* pending queue and whether it holds a waker, the events each one's
\* poll_next has yielded, the number of events the Terminal had taken when
\* each one was made, the number of events taken from the upstream stream
\* (they are numbered in arrival order), the received_ctrl_c flag, the
\* number of subscriptions made, and the last operation.
MaxSubs == 2
MaxUpstream == 3
SubIds == 1..MaxSubs
termVars == <<subscribers, t_alive, pending, t_waker, yielded, t_since, t_taken,
              received_ctrl_c, t_made, t_op>>

\* How the render loop of the counter ended: "running" while it has not,
\* "Ok" / "Err" for the io::Result it returned, "panic" for an unwinding.
drawVars == <<loop_result>>

\* A use_memo hook and a use_effect hook of one instance
\* (hooks/use_memo.rs, hooks/use_effect.rs): the memo hook's fields
\* (memoized_value is None or the value), what the last use_memo call
\* returned, whether it called f, whether the instance's first update is
\* still to come, and the deps of the last call; the effect hook's fields,
\* whether the last use_effect call ran the effect, and its deps.
MaxDeps == 4
HashWidth == 2
Deps == 0..MaxDeps
memoVars == <<memo, m_ret, m_called, m_first, m_deps, effect, e_called, e_deps>>

\* The RouterHistory of a RouterProvider (components/router/history.rs):
\* its fields (current counts from 0, as in the code; a route context is
\* its path), whether an operation on it has panicked, and the last
\* operation with its argument and return value.
MaxHistory == 3
NumPaths == 2
IndexPath == 0
Paths == 1..NumPaths
histVars == <<hist, h_panic, h_op>>

\* The Handler fields of a props value (handler.rs): per field the flag
\* Handler.0 and the boxed closure Handler.1 (Noop is the empty closure of
\* Handler::default), the handler returned by the last take, and the last
\* operation with its result.
NumSlots == 2
NumClosures == 2
Noop == 0
Slots == 1..NumSlots
Closures == 1..NumClosures
handlerVars == <<handlers, hd_taken, hd_op>>

\* A call of try_read / read / get on a State or StoreState handle: where
\* the call stands (idle, at inner.try_read(), at inner.try_write(),
\* returned), which cell and which method, and what it returned.
ReadCells == {"State", "StoreState"}
ReadApis == {"try_read", "read", "get"}
rdVars == <<rd_pc, rd_cell, rd_api, rd_ret>>

\* The use_state hooks of one instance as its poll_change sees them
\* (hooks/mod.rs): the cells in slot order, the write guard outstanding on
\* each, the result of the last poll of the hook list, and how many
\* mutations were made since that poll.
NumPolled == 2
MaxSince == 2
Polled == 1..NumPolled
pollAllVars == <<p_hooks, p_guards, p_result, p_since>>

\* One instance and the calls its hooks receive (instantiated_component.rs
\* update, hooks/mod.rs): its element key, per hook the type, the consumer
\* key of a use_store hook, how many pre_component_update and
\* post_component_update calls it got and whether it was polled; where the
\* update stands, first_update, the updates completed, the polls made, and
\* whether a poll panicked.
MaxUpdates == 3
MaxPolls == 2
MaxLifeHooks == 2
LifeHookTypes == {"state", "store"}
lifeVars == <<lc_key, lc_hooks, lc_pc, lc_first, lc_updates, lc_polls, lc_panic>>

\* Tree::render_loop with SystemContext::exit (render/tree.rs, context.rs):
\* where the loop stands, SystemContext.should_exit, the terminal's
\* received_ctrl_c, the updates and draws made, the times the loop awaited
\* its select, what render_loop returned, the pass in which exit() was
\* called, the terminal events not yet read, and whether the tree has a
\* change to report.
MaxPasses == 3
MaxQueue == 2
exitVars == <<x_pc, should_exit, x_ctrl_c, x_passes, x_draws, x_awaits, x_result, x_exit_at, x_queue, x_changed>>

\* The use_future hooks of one instance over its updates and polls
\* (hooks/use_future.rs). The future passed to a hook in update n is called
\* n; per hook, fu_hook.f is the stored future (None: no hook yet, or f = None after
\* completion), fu_polls how often each future was polled, fu_dropped the
\* futures dropped, fu_done those that completed, fu_ret what the hook's
\* last poll_change returned.
MaxSched == 4
NumFutureHooks == 2
FutHooks == 1..NumFutureHooks
Futures == 1..MaxUpdates
futVars == <<fu_hook, fu_first, fu_updates, fu_sched, fu_polls, fu_dropped, fu_done, fu_ret>>

moreVars == <<storeVars, copyVars, termVars, drawVars, memoVars, histVars, handlerVars, rdVars, pollAllVars, lifeVars, exitVars, futVars>>

restVars == <<counterVars, ctxVars, ownerVars, moreVars>>

vars == <<treeVars, hookVars, cellVars, loopVars, restVars>>

NoGuard == [held |-> FALSE, is_deref_mut |-> FALSE]

\* An instance that has never been updated: no hook, no handle.
IdleHooks ==
    /\ slots = <<>>
    /\ first_update = TRUE
    /\ handles = <<>>
    /\ in_update = FALSE
    /\ calls = 0
    /\ ret = None
    /\ req = "none"
    /\ hook_panic = FALSE

\* No render loop is running.
IdleLoop ==
    /\ pc = "idle"
    /\ order = <<>>
    /\ hook_pos = 1
    /\ pass_ready = FALSE
    /\ woken = FALSE
    /\ task = [alive |-> FALSE, writes |-> 0, awaits |-> 0]
    /\ timer = "off"
    /\ term_queue = <<>>
    /\ sub_queue = 0
    /\ sub_waker = FALSE
    /\ stale = FALSE
    /\ tick = 0

\* UseStateImpl::new: a State cell nobody has borrowed or polled.
IdleCell ==
    /\ cell = NewState
    /\ guard = NoGuard
    /\ readers = 0
    /\ wake_count = 0
    /\ result = "none"
    /\ last_op = "new"
    /\ prev_op = "new"

\* No counter is running.
IdleCounter == passes = 0

\* ContextStack::root: the SystemContext alone, nothing borrowed.
NoLookup == [op |-> "none", type |-> "none", idx |-> 0, panic |-> FALSE]
RootContext == [type |-> "System", mode |-> "Mut", readers |-> 0, writer |-> FALSE]
IdleCtx ==
    /\ stack = <<RootContext>>
    /\ frames = <<>>
    /\ guards = <<>>
    /\ found = NoLookup
    /\ ctx_panic = FALSE

IdleOwner == owner_dropped = FALSE

\* StoreState::new: no waker stored, nothing borrowed; no consumer has been
\* updated yet.
NoStoreOp == [op |-> "new", who |-> 0, result |-> "none"]
IdleStore ==
    /\ store = [value |-> 0, is_changed |-> FALSE, wakers |-> [k \in StoreKeys |-> None]]
    /\ sguard = NoGuard
    /\ skeys = [c \in Consumers |-> None]
    /\ swakes = [c \in Consumers |-> 0]
    /\ sop = NoStoreOp

\* Two use_state hooks after the first update: each has returned its handle.
NoRead == [copy |-> 0, value |-> 0]
IdleCopies ==
    /\ hcells = [c \in Cells |-> 0]
    /\ hguard = [slot |-> None, is_deref_mut |-> FALSE]
    /\ copies = [c \in Cells |-> c]
    /\ hread = NoRead
    /\ hwritten = [c \in Cells |-> 0]

\* Terminal::new: nobody has subscribed, nothing was taken.
IdleTerm ==
    /\ subscribers = <<>>
    /\ t_alive = {}
    /\ pending = [s \in SubIds |-> <<>>]
    /\ t_waker = [s \in SubIds |-> FALSE]
    /\ yielded = [s \in SubIds |-> <<>>]
    /\ t_since = [s \in SubIds |-> 0]
    /\ t_taken = 0
    /\ received_ctrl_c = FALSE
    /\ t_made = 0
    /\ t_op = "new"

IdleDraw == loop_result = "running"

\* UseMemoImpl::default, before the instance's first update. A computed
\* value v is held as <<v>>.
NoValue == <<>>
IdleMemo ==
    /\ memo = [memoized_value |-> NoValue, deps_hash |-> 0]
    /\ m_ret = NoValue
    /\ m_called = FALSE
    /\ m_first = TRUE
    /\ m_deps = 0
    /\ effect = [memoized_value |-> NoValue, deps_hash |-> 0]
    /\ e_called = FALSE
    /\ e_deps = 0

\* No RouterProvider has been updated yet.
NoHistOp == [op |-> "none", arg |-> 0, ret |-> FALSE]
IdleHist ==
    /\ hist = [current |-> 0, history |-> <<>>, max_length |-> 0]
    /\ h_panic = FALSE
    /\ h_op = NoHistOp

\* Handler::default: Self(false, Box::new(|_| {}))
HandlerDefault == [set |-> FALSE, f |-> Noop]

\* A props value built by Default: every Handler field is the default.
NoHandlerOp == [op |-> "none", slot |-> 0, ret |-> FALSE, ran |-> Noop]
IdleHandler ==
    /\ handlers = [s \in Slots |-> HandlerDefault]
    /\ hd_taken = HandlerDefault
    /\ hd_op = NoHandlerOp

\* No read call has been made.
IdleReaders ==
    /\ rd_pc = "idle"
    /\ rd_cell = "State"
    /\ rd_api = "try_read"
    /\ rd_ret = "none"

\* The instance after its first update: new cells, nothing borrowed.
IdlePollAll ==
    /\ p_hooks = [i \in Polled |-> NewState]
    /\ p_guards = [i \in Polled |-> NoGuard]
    /\ p_result = "none"
    /\ p_since = 0

\* InstantiatedComponent::new: no hook, first_update = true.
IdleLife ==
    /\ lc_key = None
    /\ lc_hooks = <<>>
    /\ lc_pc = "new"
    /\ lc_first = TRUE
    /\ lc_updates = 0
    /\ lc_polls = 0
    /\ lc_panic = FALSE

\* SystemContext::new and a loop that has not started its first pass.
IdleExit ==
    /\ x_pc = "render"
    /\ should_exit = FALSE
    /\ x_ctrl_c = FALSE
    /\ x_passes = 0
    /\ x_draws = 0
    /\ x_awaits = 0
    /\ x_result = "running"
    /\ x_exit_at = 0
    /\ x_queue = <<>>
    /\ x_changed = FALSE

\* A new instance: no hook, first_update = true.
IdleFut ==
    /\ fu_hook = [h \in FutHooks |-> [exists |-> FALSE, f |-> None]]
    /\ fu_first = TRUE
    /\ fu_updates = 0
    /\ fu_sched = 0
    /\ fu_polls = [h \in FutHooks |-> [n \in Futures |-> 0]]
    /\ fu_dropped = [h \in FutHooks |-> {}]
    /\ fu_done = [h \in FutHooks |-> {}]
    /\ fu_ret = [h \in FutHooks |-> "none"]

IdleMore == IdleStore /\ IdleCopies /\ IdleTerm /\ IdleDraw /\ IdleMemo /\ IdleHist /\ IdleHandler /\ IdleReaders /\ IdlePollAll /\ IdleLife /\ IdleExit /\ IdleFut

IdleRest == IdleCounter /\ IdleCtx /\ IdleOwner /\ IdleMore

NoPoll == [i \in InstIds |-> "none"]
NoRender == <<[key |-> RootKey, type |-> "none", children |-> <<>>]>>

\* Tree::new: the root component exists and has not been updated.
InitTree ==
    /\ arena = [i \in InstIds |-> IF i = RootId THEN NewInst(RootKey, "Root") ELSE NoInst]
    /\ nextId = RootId + 1
    /\ dropCount = [i \in InstIds |-> 0]
    /\ panicked = FALSE
    /\ given = NoRender
    /\ log = <<>>
    /\ lastPoll = NoPoll
    /\ IdleHooks
    /\ IdleCell
    /\ IdleLoop
    /\ IdleRest

\* Tree::render: the root's update reconciles the whole tree of elements.
Render(elements) ==
    \E st \in {UpdateInst([arena |-> arena, nextId |-> nextId, dropCount |-> dropCount,
                           panicked |-> panicked, overflow |-> FALSE, log |-> <<>>],
                          RootId, RootElem(elements))} :
        /\ ~panicked
        /\ ~st.overflow
        /\ arena' = st.arena
        /\ nextId' = st.nextId
        /\ dropCount' = st.dropCount
        /\ panicked' = st.panicked
        /\ given' = elements
        /\ log' = st.log
        /\ lastPoll' = NoPoll
        /\ UNCHANGED <<hookVars, cellVars, loopVars, restVars>>

MaxValue == 1
MaxHooks == 2

\* State::set(v) through a handle of a live instance's use_state hook.
SetState(id, i, v) ==
    /\ ~panicked
    /\ arena[id].live
    /\ i \in 1..Len(arena[id].hooks)
    /\ arena[id].hooks[i].type = "state"
    /\ arena' = [arena EXCEPT ![id].hooks[i] =
                    [@ EXCEPT !.value = v, !.is_changed = TRUE, !.waker = FALSE]]
    /\ given' = NoRender
    /\ log' = <<>>
    /\ lastPoll' = NoPoll
    /\ UNCHANGED <<nextId, dropCount, panicked, hookVars, cellVars, loopVars, restVars>>

NextTree ==
    \/ \E elements \in ChildLists : Render(elements)
    \/ \E id \in InstIds, i \in 1..MaxHooks, v \in 1..MaxValue : SetState(id, i, v)

SpecTree == InitTree /\ [][NextTree]_vars

\* ------------------------------------------------------------------------
\* Reading a tree
\* ------------------------------------------------------------------------
Children(ar, p) == Iter(ar[p].children)

Range(seq) == {seq[i] : i \in 1..Len(seq)}

RECURSIVE Descendants(_, _)
Descendants(ar, id) ==
    LET kids == Range(Children(ar, id))
    IN  kids \cup UNION {Descendants(ar, k) : k \in kids}

\* The instances some live collection still holds (pop_front could return).
Held(ar) == UNION {Range(ar[p].children.items) \ {None} : p \in {q \in InstIds : ar[q].live}}

\* The instances one poll_change of the root visits.
PollVisited(ar) ==
    {i \in InstIds : InstPollChange([arena |-> ar, res |-> NoPoll], RootId, FALSE).ps.res[i] # "none"}

\* The j-th element of list is the OccIdx-th one with its key.
OccIdx(list, j) == Cardinality({i \in 1..j : list[i].key = list[j].key})

\* The previous children of p with key k, in their order.
PrevWithKey(ar, p, k) == SelectSeq(Children(ar, p), LAMBDA c : ar[c].key = k)

KeySet(list) == {list[j].key : j \in 1..Len(list)}

\* The update_children calls of one render: <<parent, list>>, for the root
\* and for each of its children.
Calls(ar2, elements) ==
    {<<RootId, elements>>}
        \cup {<<Children(ar2, RootId)[j], elements[j].children>> :
                j \in 1..(IF Len(elements) < Len(Children(ar2, RootId))
                            THEN Len(elements) ELSE Len(Children(ar2, RootId)))}

\* The calls whose parent existed before the render (a second call on it).
SecondCalls(ar, ar2, elements) == {c \in Calls(ar2, elements) : ar[c[1]].live}

\* ------------------------------------------------------------------------
\* C1, in the specification's words: a key that occurs in both child lists
\* with the same component type has an instance of that key and type reused
\* by the second update_children call, with its hooks unchanged and
\* first_update false.
\* ------------------------------------------------------------------------
C1_ReusedSomewhere(ar, ar2, p, list) ==
    \A o \in Range(Children(ar, p)) :
        (\E j \in 1..Len(list) : list[j].key = ar[o].key /\ list[j].type = ar[o].type)
        => \E o2 \in Range(Children(ar, p)) :
              /\ ar[o2].key = ar[o].key
              /\ ar[o2].type = ar[o].type
              /\ o2 \in Range(Children(ar2, p))
              /\ ar2[o2].hooks = ar[o2].hooks
              /\ ~ar2[o2].first_update

\* C1, in the specification's words: in every update_children call after a
\* parent's first, each previous child whose key and type occur in the new
\* list is succeeded by a reused instance of that key and type.
C1_KeyInBothListsReused ==
    [][given' # NoRender =>
         \A c \in SecondCalls(arena, arena', given') :
             C1_ReusedSomewhere(arena, arena', c[1], c[2])]_vars

\* C1, by occurrence: when the i-th occurrence of a key in the new list has the
\* component type of the i-th previous instance with that key (so, always,
\* for a key that occurs once in each list with the same type), that
\* instance is the one at this position after the call, its hooks are
\* unchanged and first_update stays false, whatever the siblings are.
C1_ReusedAt(ar, ar2, p, list) ==
    \A j \in 1..Len(list) :
        LET prevs == PrevWithKey(ar, p, list[j].key)
            n == OccIdx(list, j)
        IN  (n <= Len(prevs) /\ ar[prevs[n]].type = list[j].type)
            => /\ j <= Len(Children(ar2, p))
               /\ Children(ar2, p)[j] = prevs[n]
               /\ ar2[prevs[n]].live
               /\ ar2[prevs[n]].hooks = ar[prevs[n]].hooks
               /\ ~ar[prevs[n]].first_update
               /\ ~ar2[prevs[n]].first_update

\* C1, by occurrence: in every update_children call after a parent's first,
\* the i-th occurrence of a key reuses the i-th previous instance of that
\* key when the types agree, hooks and first_update = false kept.
C1_KeyStability ==
    [][given' # NoRender =>
         \A c \in SecondCalls(arena, arena', given') :
             C1_ReusedAt(arena, arena', c[1], c[2])]_vars

\* A render has just reused a child whose state had been set to 1, next to
\* a sibling that this render built.
C1_Witness ==
    /\ given # NoRender
    /\ \E e1, e2 \in Range(log) :
          /\ e1.op = "reuse" /\ e2.op = "new"
          /\ e1.id \in Range(Children(arena, RootId))
          /\ e2.id \in Range(Children(arena, RootId))
          /\ \E i \in 1..Len(arena[e1.id].hooks) :
                arena[e1.id].hooks[i].type = "state" /\ arena[e1.id].hooks[i].value = 1

\* ------------------------------------------------------------------------
\* C2: a child whose key finds a previous instance of another component
\* type: that instance and its whole subtree are dropped exactly once, and
\* the child gets a newly built instance whose hooks are the freshly
\* constructed ones of its own first update.
\* ------------------------------------------------------------------------
C2_ReplacedAt(ar, ar2, dc, dc2, nid, p, list) ==
    \A j \in 1..Len(list) :
        LET prevs == PrevWithKey(ar, p, list[j].key)
            n == OccIdx(list, j)
        IN  (n <= Len(prevs) /\ ar[prevs[n]].type # list[j].type)
            => /\ \A d \in {prevs[n]} \cup Descendants(ar, prevs[n]) :
                     /\ dc[d] = 0 /\ dc2[d] = 1
                     /\ ~ar2[d].live
                     /\ d \notin Held(ar2)
               /\ j <= Len(Children(ar2, p))
               /\ Children(ar2, p)[j] >= nid
               /\ ar2[Children(ar2, p)[j]].type = list[j].type
               /\ ar2[Children(ar2, p)[j]].hooks = HookProgram(list[j].type)
               /\ ~ar2[Children(ar2, p)[j]].first_update

\* C2: in every update_children call, a key match with another type drops
\* the old instance and its subtree once and builds a fresh instance.
C2_TypeChangeReplaces ==
    [][given' # NoRender =>
         \A c \in SecondCalls(arena, arena', given') :
             C2_ReplacedAt(arena, arena', dropCount, dropCount', nextId, c[1], c[2])]_vars

\* A render has just built a child over a dropped instance of the same key
\* that had a child of its own and a state set to 1.
C2_Witness ==
    /\ given # NoRender
    /\ \E i \in 1..Len(log) :
          /\ i + 2 <= Len(log)
          /\ log[i].op = "new" /\ log[i + 1].op = "drop" /\ log[i + 2].op = "drop"
          /\ log[i].key = log[i + 1].key
          /\ arena[log[i].id].live
          /\ dropCount[log[i + 1].id] = 1

\* ------------------------------------------------------------------------
\* C3: after update_children, every previous child whose key is not in the
\* new list has been dropped exactly once with all its descendants, and no
\* iteration, poll or collection reaches any of them.
\* ------------------------------------------------------------------------
C3_UnmatchedAt(ar, ar2, dc, dc2, p, list) ==
    \A o \in Range(Children(ar, p)) :
        ar[o].key \notin KeySet(list)
        => \A d \in {o} \cup Descendants(ar, o) :
              /\ dc[d] = 0 /\ dc2[d] = 1
              /\ ~ar2[d].live
              /\ ar2[d].hooks = <<>>
              /\ d \notin Descendants(ar2, RootId)
              /\ d \notin PollVisited(ar2)
              /\ d \notin Held(ar2)

\* C3: in every update_children call, the previous children left unmatched
\* are dropped once with their subtrees and are reachable no more.
C3_UnmatchedKeyTeardown ==
    [][given' # NoRender =>
         \A c \in SecondCalls(arena, arena', given') :
             C3_UnmatchedAt(arena, arena', dropCount, dropCount', c[1], c[2])]_vars

\* A render has just dropped a child of the root whose key is not in the
\* new list, and a child of that child.
C3_Witness ==
    /\ given # NoRender
    /\ \E i \in 1..Len(log) :
          /\ i + 1 <= Len(log)
          /\ log[i].op = "drop" /\ log[i + 1].op = "drop"
          /\ log[i].key \notin KeySet(given)
          /\ dropCount[log[i].id] = 1 /\ dropCount[log[i + 1].id] = 1

\* ------------------------------------------------------------------------
\* C4, in the specification's words: after update_children the collection holds exactly one
\* instance per key of the list it was given, in the order of the list.
\* ------------------------------------------------------------------------
InOrder(ar2, p, list) ==
    /\ Len(Children(ar2, p)) = Len(list)
    /\ \A j \in 1..Len(list) :
          /\ ar2[Children(ar2, p)[j]].live
          /\ ar2[Children(ar2, p)[j]].key = list[j].key
          /\ ar2[Children(ar2, p)[j]].type = list[j].type

\* C4, in the specification's words: after update_children the collection
\* holds exactly one instance per key of the list it was given.
C4_OnePerKey ==
    given # NoRender =>
        \A c \in Calls(arena, given) :
            /\ \A k \in KeySet(c[2]) :
                  Cardinality({i \in Range(Children(arena, c[1])) : arena[i].key = k}) = 1
            /\ \A i \in Range(Children(arena, c[1])) : arena[i].key \in KeySet(c[2])

\* C4, by element: after update_children the collection holds exactly one
\* instance per element of the list it was given (one per key when the keys
\* of the list are distinct), and iterating it yields them in list order.
C4_OnePerElement ==
    given # NoRender =>
        \A c \in Calls(arena, given) :
            /\ InOrder(arena, c[1], c[2])
            /\ Cardinality(Range(Children(arena, c[1]))) = Len(c[2])
            /\ arena[c[1]].children.items = Children(arena, c[1])

\* A render was given two children with one key, of different types.
C4_Witness ==
    /\ given # NoRender
    /\ Len(given) = 2
    /\ given[1].key = given[2].key
    /\ given[1].type # given[2].type
    /\ Len(Children(arena, RootId)) = 2

\* ========================================================================
\* Hooks: one instance's hook list across its updates (hooks/mod.rs).
\* InstantiatedComponent::update builds a Hooks handle over the list with
\* hook_index 0; Hooks::with_context_stack builds a second handle over the
\* same list that starts from a copy of the first handle's hook_index; the
\* first handle is usable again once the second is gone.
\* ========================================================================
MaxCalls == 3
MaxHandles == 2

HookTypes == {"state", "future"}

\* The hook a use_hook call of type t would construct; ctor records which
\* call of the update the constructor closure ran in.
NewHook(t, n) == [type |-> t, ctor |-> n]

Last(seq) == seq[Len(seq)]

\* Nothing has been rendered yet: the instance has no hook.
InitHooks == InitTree

\* InstantiatedComponent::update up to the call of the component's update:
\* Hooks::new(&mut self.hooks, self.first_update).
BeginUpdate ==
    /\ ~in_update
    /\ ~hook_panic
    /\ in_update' = TRUE
    /\ handles' = <<NewHooks(slots, first_update).hook_index>>
    /\ calls' = 0
    /\ ret' = None
    /\ req' = "none"
    /\ UNCHANGED <<slots, first_update, hook_panic, treeVars, cellVars, loopVars, restVars>>

\* Hooks::with_context_stack on the handle in use.
WithContextStack ==
    /\ in_update
    /\ ~hook_panic
    /\ Len(handles) < MaxHandles
    /\ handles' = Append(handles, Last(handles))
    /\ UNCHANGED <<slots, first_update, in_update, calls, ret, req, hook_panic,
                   treeVars, cellVars, loopVars, restVars>>

\* The handle made by with_context_stack goes out of scope.
DropHandle ==
    /\ in_update
    /\ ~hook_panic
    /\ Len(handles) > 1
    /\ handles' = SubSeq(handles, 1, Len(handles) - 1)
    /\ UNCHANGED <<slots, first_update, in_update, calls, ret, req, hook_panic,
                   treeVars, cellVars, loopVars, restVars>>

\* Hooks::use_hook::<t> on the handle in use.
CallUseHook(t) ==
    /\ in_update
    /\ ~hook_panic
    /\ calls < MaxCalls
    /\ LET h == [hooks |-> slots, first_update |-> first_update,
                 hook_index |-> Last(handles), slot |-> None, panic |-> FALSE]
           r == UseHook(h, NewHook(t, calls + 1))
       IN  /\ slots' = r.hooks
           /\ handles' = [handles EXCEPT ![Len(handles)] = r.hook_index]
           /\ ret' = r.slot
           /\ hook_panic' = r.panic
    /\ calls' = calls + 1
    /\ req' = t
    /\ UNCHANGED <<first_update, in_update, treeVars, cellVars, loopVars, restVars>>

\* The component's update returned: InstantiatedComponent::update clears
\* first_update.
EndUpdate ==
    /\ in_update
    /\ ~hook_panic
    /\ in_update' = FALSE
    /\ first_update' = FALSE
    /\ handles' = <<>>
    /\ calls' = 0
    /\ ret' = None
    /\ req' = "none"
    /\ UNCHANGED <<slots, hook_panic, treeVars, cellVars, loopVars, restVars>>

NextHooks ==
    \/ BeginUpdate
    \/ WithContextStack
    \/ DropHandle
    \/ \E t \in HookTypes : CallUseHook(t)
    \/ EndUpdate

SpecHooks == InitHooks /\ [][NextHooks]_vars

\* A step that is a use_hook call: the n-th of its update, n = calls'.
IsUseHookCall == in_update /\ calls' = calls + 1

\* ------------------------------------------------------------------------
\* C5: the n-th use_hook call of an update returns the slot created by the
\* n-th call of the instance's first update; the constructor closure runs
\* only during the first update; the running index starts at zero in every
\* update and advances by exactly one per call (so the n-th call reads
\* position n of the list).
\* ------------------------------------------------------------------------
C5_NthCallNthSlot ==
    [][/\ (~in_update /\ in_update') => Last(handles') = 0
       /\ IsUseHookCall =>
            /\ ret' # None => (ret' = calls' /\ slots'[ret'].ctor = calls')
            /\ slots' # slots => first_update]_vars

\* ------------------------------------------------------------------------
\* C6: on a non-first update, when the n-th use_hook call asks for a type
\* other than the one stored at position n, or there is no position n, the
\* call panics; no call returns a slot of another type than it asked for,
\* and none adds a slot.
\* ------------------------------------------------------------------------
C6_MismatchPanics ==
    [][(IsUseHookCall /\ ~first_update) =>
          /\ (calls' > Len(slots) \/ slots[calls'].type # req') => hook_panic'
          /\ ret' # None => slots'[ret'].type = req'
          /\ slots' = slots]_vars

\* ========================================================================
\* State: one cell made by use_state, the handles' operations on it and
\* the polls of its hook (hooks/use_state.rs). The handle is Copy + Send,
\* so the operations and the polls interleave freely. A try_write on a
\* cell whose write guard is outstanding fails (the BorrowMutError that
\* poll_change's else branch and try_read's AlreadyBorrowedMut arm handle).
\* ========================================================================
MaxReaders == 2

\* A guard is outstanding, so that inner.try_write() fails.
Borrowed(g, n) == g.held \/ n > 0

\* A try_write that hands out a guard whatever is borrowed.
TryWriteShared(g, n) == [some |-> TRUE, guard |-> [held |-> TRUE, is_deref_mut |-> FALSE]]

\* State::try_write on a cell with write guard g and n read guards: the
\* guard it returns, if any.
TryWrite(g, n) ==
    IF Borrowed(g, n) THEN [some |-> FALSE, guard |-> g]
    ELSE [some |-> TRUE, guard |-> [held |-> TRUE, is_deref_mut |-> FALSE]]

\* StateMutRef::deref_mut, and the write of v through the reference.
DerefMut(c, g, v) ==
    [cell |-> [c EXCEPT !.value = v], guard |-> [g EXCEPT !.is_deref_mut = TRUE]]

\* A drop that counts every write borrow as a change.
DropAlwaysMarks(c, g) ==
    [cell |-> [c EXCEPT !.is_changed = TRUE, !.waker = FALSE],
     wakes |-> IF c.waker THEN 1 ELSE 0]

\* A drop of a written guard that marks the change and wakes nobody.
DropNoWake(c, g) ==
    IF g.is_deref_mut
      THEN [cell |-> [c EXCEPT !.is_changed = TRUE, !.waker = FALSE], wakes |-> 0]
      ELSE [cell |-> c, wakes |-> 0]

\* Drop for StateMutRef: wakes counts the calls of waker.wake().
DropStateMutRef(c, g) ==
    IF g.is_deref_mut
      THEN [cell |-> [c EXCEPT !.is_changed = TRUE, !.waker = FALSE],
            wakes |-> IF c.waker THEN 1 ELSE 0]
      ELSE [cell |-> c, wakes |-> 0]

\* State::set(v): try_write, and when it gives a guard, *guard = v and the
\* guard's drop. some: the value was written.
StateSet(c, g, n, v) ==
    LET w == TryWrite(g, n)
        m == DerefMut(c, w.guard, v)
        r == DropStateMutRef(m.cell, m.guard)
    IN  IF w.some THEN [cell |-> r.cell, wakes |-> r.wakes, some |-> TRUE]
        ELSE [cell |-> c, wakes |-> 0, some |-> FALSE]

InitCell == InitTree

\* write() / try_write(): the caller now holds the guard, or got None.
CellTryWrite ==
    LET r == TryWrite(guard, readers)
    IN  /\ guard' = r.guard
        /\ last_op' = IF r.some THEN "try_write" ELSE "try_write_none"
        /\ prev_op' = last_op
        /\ wake_count' = 0
        /\ result' = "none"
        /\ UNCHANGED <<cell, readers, treeVars, hookVars, loopVars, restVars>>

\* *guard = v
CellDerefMut(v) ==
    /\ guard.held
    /\ LET r == DerefMut(cell, guard, v)
       IN  cell' = r.cell /\ guard' = r.guard
    /\ last_op' = "deref_mut"
    /\ prev_op' = last_op
    /\ wake_count' = 0
    /\ result' = "none"
    /\ UNCHANGED <<readers, treeVars, hookVars, loopVars, restVars>>

\* The guard goes out of scope.
CellDropGuard ==
    /\ guard.held
    /\ LET r == DropStateMutRef(cell, guard)
       IN  cell' = r.cell /\ wake_count' = r.wakes
    /\ guard' = NoGuard
    /\ last_op' = IF guard.is_deref_mut THEN "drop_mutated" ELSE "drop_unmutated"
    /\ prev_op' = last_op
    /\ result' = "none"
    /\ UNCHANGED <<readers, treeVars, hookVars, loopVars, restVars>>

\* State::set(v)
CellSet(v) ==
    LET r == StateSet(cell, guard, readers, v)
    IN  /\ cell' = r.cell
        /\ wake_count' = r.wakes
        /\ last_op' = IF r.some THEN "set" ELSE "set_none"
        /\ prev_op' = last_op
        /\ result' = "none"
        /\ UNCHANGED <<guard, readers, treeVars, hookVars, loopVars, restVars>>

\* State::read() / try_read() returns a StateRef. While a write guard is
\* outstanding its loop goes round without returning, which changes nothing.
CellTryRead ==
    /\ ~guard.held
    /\ readers < MaxReaders
    /\ readers' = readers + 1
    /\ last_op' = "try_read"
    /\ prev_op' = last_op
    /\ wake_count' = 0
    /\ result' = "none"
    /\ UNCHANGED <<cell, guard, treeVars, hookVars, loopVars, restVars>>

\* A StateRef goes out of scope.
CellDropRef ==
    /\ readers > 0
    /\ readers' = readers - 1
    /\ last_op' = "drop_ref"
    /\ prev_op' = last_op
    /\ wake_count' = 0
    /\ result' = "none"
    /\ UNCHANGED <<cell, guard, treeVars, hookVars, loopVars, restVars>>

\* UseStateImpl::poll_change
CellPollChange ==
    LET r == StatePollChange(cell, Borrowed(guard, readers))
    IN  /\ cell' = r.hook
        /\ result' = IF r.ready THEN "Ready" ELSE "Pending"
        /\ last_op' = "poll"
        /\ prev_op' = last_op
        /\ wake_count' = 0
        /\ UNCHANGED <<guard, readers, treeVars, hookVars, loopVars, restVars>>

NextCell ==
    \/ CellTryWrite
    \/ \E v \in 0..MaxValue : CellDerefMut(v)
    \/ CellDropGuard
    \/ \E v \in 0..MaxValue : CellSet(v)
    \/ CellTryRead
    \/ CellDropRef
    \/ CellPollChange

SpecCell == InitCell /\ [][NextCell]_vars

IsAcquire == ~guard.held /\ guard'.held
IsMutatedDrop == guard.held /\ guard.is_deref_mut /\ ~guard'.held
IsUnmutatedDrop == guard.held /\ ~guard.is_deref_mut /\ ~guard'.held
IsPoll == result' # "none"

C8_UnmutatedGuardThenPending ==
    [][/\ (IsAcquire \/ IsUnmutatedDrop) => (cell' = cell /\ wake_count' = 0)
       /\ (last_op = "drop_unmutated" /\ IsPoll) => result' = "Pending"]_vars

\* C8, as a frame condition: taking a write guard and dropping it without a mutable
\* dereference leaves the value, the changed flag and the waker as they
\* were and calls no waker; the poll_change that follows returns what it
\* would have returned without the guard: Pending when the changed flag was
\* clear, Ready when an earlier mutation had set it and no other guard is
\* outstanding.
C8_UnmutatedGuardFrame ==
    [][/\ (IsAcquire \/ IsUnmutatedDrop) => (cell' = cell /\ wake_count' = 0)
       /\ (last_op = "drop_unmutated" /\ IsPoll) =>
            /\ ~cell.is_changed => result' = "Pending"
            /\ (cell.is_changed /\ readers = 0) => result' = "Ready"]_vars

\* A poll registered the waker, a guard was then taken and dropped without
\* a mutable dereference, and the poll after it returned Pending with the
\* waker still registered.
C8_Witness ==
    /\ prev_op = "drop_unmutated"
    /\ last_op = "poll"
    /\ result = "Pending"
    /\ cell.waker
    /\ ~cell.is_changed
    /\ readers = 0

\* ========================================================================
\* Polling a rendered tree: InstantiatedComponent::wait polls
\* InstantiatedComponent::poll_change of the root, which polls the whole
\* tree (component/instantiated_component.rs).
\* ========================================================================
InitPoll == InitTree

\* The first Tree::render builds the tree.
FirstRender(elements) ==
    /\ arena[RootId].first_update
    /\ Render(elements)

\* One poll of the root's poll_change; done: the futures of the use_future
\* hooks complete in this poll.
PollTree(done) ==
    \E r \in {InstPollChange([arena |-> arena, res |-> NoPoll], RootId, done)} :
        /\ ~panicked
        /\ ~arena[RootId].first_update
        /\ arena' = r.ps.arena
        /\ lastPoll' = r.ps.res
        /\ given' = NoRender
        /\ log' = <<>>
        /\ UNCHANGED <<nextId, dropCount, panicked, hookVars, cellVars, loopVars, restVars>>

NextPoll ==
    \/ \E elements \in ChildLists : FirstRender(elements)
    \/ \E id \in InstIds, i \in 1..MaxHooks, v \in 1..MaxValue : SetState(id, i, v)
    \/ \E done \in BOOLEAN : PollTree(done)

SpecPoll == InitPoll /\ [][NextPoll]_vars

\* Hook i of instance id reports Ready when polled in state ar.
HookReports(ar, id, i) == HookPollChange(ar[id].hooks[i], FALSE).ready

\* ------------------------------------------------------------------------
\* C10: in every poll, InstantiatedComponent::poll_change of an instance
\* returns Ready exactly when the component, one of its hooks or one of its
\* descendant instances reports Ready in that poll, and Pending otherwise;
\* what it returns depends on the state at the poll alone.
\* ------------------------------------------------------------------------
C10_ReadyIsOr ==
    [][lastPoll' # NoPoll =>
         \A id \in PollVisited(arena) :
            /\ lastPoll'[id] \in {"Ready", "Pending"}
            /\ lastPoll'[id] = "Ready" <=>
                 \/ ComponentPollChange(arena[id].type)
                 \/ \E i \in 1..Len(arena[id].hooks) : HookReports(arena, id, i)
                 \/ \E d \in Descendants(arena, id) : lastPoll'[d] = "Ready"]_vars

\* A poll returned Ready for the root and for a container whose own hooks
\* were all Pending, because the state of the container's child had been
\* set; the container's sibling returned Pending.
C10_Witness ==
    \E b \in InstIds, c \in InstIds, a \in InstIds :
        /\ Children(arena, RootId) = <<b, a>>
        /\ Children(arena, b) = <<c>>
        /\ lastPoll[RootId] = "Ready"
        /\ lastPoll[b] = "Ready"
        /\ lastPoll[c] = "Ready"
        /\ lastPoll[a] = "Pending"
        /\ \A i \in 1..Len(arena[b].hooks) :
              arena[b].hooks[i].type = "state" => arena[b].hooks[i].waker

\* ========================================================================
\* The render loop (render/tree.rs) over a root component whose update
\* calls use_state, use_future and use_events, in some order. One thread
\* runs everything: the update, and in the wait after it the poll of each
\* hook in slot order (the task of use_future and the handler of use_events
\* run inside their hooks' polls), then Terminal::wait. The task may keep a
\* write guard while it awaits its timer. The waker of every poll is the
\* loop's own: woken says it was called since the loop's last resumption.
\* ========================================================================
MaxWrites == 2
MaxAwaits == 2
MaxEvents == 1

HookKinds == {"state", "future", "events"}
HookOrders == {o \in [1..3 -> HookKinds] : \A i, j \in 1..3 : i # j => o[i] # o[j]}
EventKinds == {"key", "ctrl_c"}

\* The position of the first ctrl_c in the queue q, 0 if there is none.
FirstCtrlC(q) ==
    IF \E i \in 1..Len(q) : q[i] = "ctrl_c"
      THEN CHOOSE i \in 1..Len(q) : q[i] = "ctrl_c" /\ \A j \in 1..(i - 1) : q[j] # "ctrl_c"
      ELSE 0

NoSet == [cell |-> cell, wakes |-> 0, some |-> FALSE]

\* The loop is about to render for the first time; the state after the
\* construction of the tree, the hooks of the root in any order.
InitLoop ==
    /\ arena = [i \in InstIds |-> IF i = RootId THEN NewInst(RootKey, "Root") ELSE NoInst]
    /\ nextId = RootId + 1
    /\ dropCount = [i \in InstIds |-> 0]
    /\ panicked = FALSE
    /\ given = NoRender
    /\ log = <<>>
    /\ lastPoll = NoPoll
    /\ IdleHooks
    /\ IdleCell
    /\ pc = "render"
    /\ order \in HookOrders
    /\ hook_pos = 1
    /\ pass_ready = FALSE
    /\ woken = FALSE
    /\ task = [alive |-> TRUE, writes |-> 0, awaits |-> 0]
    /\ timer = "off"
    /\ term_queue = <<>>
    /\ sub_queue = 0
    /\ sub_waker = FALSE
    /\ stale = FALSE
    /\ tick = 0
    /\ IdleRest

loopFrame == <<readers, wake_count, result, last_op, prev_op, treeVars, hookVars, restVars>>

\* Tree::render and the exit test after it. mutate: the update sets the
\* state; exit: the component has asked to exit.
LoopRender(mutate, exit) ==
    /\ pc = "render"
    /\ \E r \in {IF mutate THEN StateSet(cell, guard, readers, 1) ELSE NoSet} :
          /\ cell' = r.cell
          /\ woken' = (woken \/ r.wakes > 0)
          /\ stale' = r.some
    /\ tick' = 1 - tick
    /\ pc' = IF exit THEN "exited" ELSE "poll"
    /\ hook_pos' = 1
    /\ pass_ready' = FALSE
    /\ UNCHANGED <<guard, order, task, timer, term_queue, sub_queue, sub_waker, loopFrame>>

AtHook(kind) == pc = "poll" /\ hook_pos <= 3 /\ order[hook_pos] = kind

\* The poll reaches the use_state hook: UseStateImpl::poll_change.
PollStateHook ==
    /\ AtHook("state")
    /\ \E r \in {StatePollChange(cell, Borrowed(guard, readers))} :
          /\ cell' = r.hook
          /\ pass_ready' = (pass_ready \/ r.ready)
    /\ hook_pos' = hook_pos + 1
    /\ UNCHANGED <<guard, pc, order, woken, task, timer, term_queue, sub_queue,
                   sub_waker, stale, tick, loopFrame>>

\* The poll reaches the use_future hook and the task can run.
TaskRuns == AtHook("future") /\ task.alive /\ timer = "off"

\* The task calls state.write().
TaskTryWrite ==
    /\ TaskRuns
    /\ task.writes < MaxWrites
    /\ ~Borrowed(guard, readers)
    /\ guard' = TryWrite(guard, readers).guard
    /\ task' = [task EXCEPT !.writes = @ + 1]
    /\ UNCHANGED <<cell, pc, order, hook_pos, pass_ready, woken, timer, term_queue,
                   sub_queue, sub_waker, stale, tick, loopFrame>>

\* The task writes through its guard.
TaskDerefMut ==
    /\ TaskRuns
    /\ guard.held
    /\ ~guard.is_deref_mut
    /\ \E r \in {DerefMut(cell, guard, 1)} : cell' = r.cell /\ guard' = r.guard
    /\ UNCHANGED <<pc, order, hook_pos, pass_ready, woken, task, timer, term_queue,
                   sub_queue, sub_waker, stale, tick, loopFrame>>

\* The task drops its guard.
TaskDropGuard ==
    /\ TaskRuns
    /\ guard.held
    /\ \E r \in {DropStateMutRef(cell, guard)} :
          /\ cell' = r.cell
          /\ woken' = (woken \/ r.wakes > 0)
    /\ stale' = (stale \/ guard.is_deref_mut)
    /\ guard' = NoGuard
    /\ UNCHANGED <<pc, order, hook_pos, pass_ready, task, timer, term_queue, sub_queue,
                   sub_waker, tick, loopFrame>>

\* The task awaits its timer, with or without a guard in hand: the
\* future's poll is Pending and UseFutureImpl::poll_change returns Pending.
TaskAwait ==
    /\ TaskRuns
    /\ task.awaits < MaxAwaits
    /\ timer' = "armed"
    /\ task' = [task EXCEPT !.awaits = @ + 1]
    /\ hook_pos' = hook_pos + 1
    /\ UNCHANGED <<cell, guard, pc, order, pass_ready, woken, term_queue, sub_queue,
                   sub_waker, stale, tick, loopFrame>>

\* The task ends, having dropped its guard: the future's poll is Ready,
\* UseFutureImpl::poll_change clears the future and returns Pending.
TaskFinish ==
    /\ TaskRuns
    /\ ~guard.held
    /\ task' = [task EXCEPT !.alive = FALSE]
    /\ hook_pos' = hook_pos + 1
    /\ UNCHANGED <<cell, guard, pc, order, pass_ready, woken, timer, term_queue,
                   sub_queue, sub_waker, stale, tick, loopFrame>>

\* The poll reaches the use_future hook while the task waits for its timer
\* or has ended.
PollFutureIdle ==
    /\ AtHook("future")
    /\ ~task.alive \/ timer = "armed"
    /\ hook_pos' = hook_pos + 1
    /\ UNCHANGED <<cell, guard, pc, order, pass_ready, woken, task, timer, term_queue,
                   sub_queue, sub_waker, stale, tick, loopFrame>>

\* The poll reaches the use_events hook: UseEventsImpl::poll_change hands
\* the pending events to the handler, then registers the waker. mutate: the
\* handler sets the state.
PollEventsHook(mutate) ==
    /\ AtHook("events")
    /\ mutate => sub_queue > 0
    /\ \E r \in {IF mutate THEN StateSet(cell, guard, readers, 1) ELSE NoSet} :
          /\ cell' = r.cell
          /\ woken' = (woken \/ r.wakes > 0)
          /\ stale' = (stale \/ r.some)
    /\ sub_queue' = 0
    /\ sub_waker' = TRUE
    /\ hook_pos' = hook_pos + 1
    /\ UNCHANGED <<guard, pc, order, pass_ready, task, timer, term_queue, tick, loopFrame>>

\* Every hook is polled: root_component.wait() is Ready and the loop
\* renders again, or it is Pending and select polls terminal.wait().
PollDone ==
    /\ pc = "poll"
    /\ hook_pos > 3
    /\ pc' = IF pass_ready THEN "render" ELSE "terminal"
    /\ UNCHANGED <<cell, guard, order, hook_pos, pass_ready, woken, task, timer,
                   term_queue, sub_queue, sub_waker, stale, tick, loopFrame>>

\* Terminal::wait: each event of the stream goes to the subscribers, whose
\* waker is called; ctrl_c ends the wait and the loop; with no event left
\* the loop is suspended.
TerminalWait ==
    /\ pc = "terminal"
    /\ LET c == FirstCtrlC(term_queue)
           keys == IF c = 0 THEN Len(term_queue) ELSE c - 1
       IN  /\ sub_queue' = sub_queue + keys
           /\ woken' = (woken \/ (keys > 0 /\ sub_waker))
           /\ sub_waker' = (sub_waker /\ keys = 0)
           /\ term_queue' = IF c = 0 THEN <<>> ELSE SubSeq(term_queue, c + 1, Len(term_queue))
           /\ pc' = IF c = 0 THEN "suspended" ELSE "exited"
    /\ UNCHANGED <<cell, guard, order, hook_pos, pass_ready, task, timer, stale, tick,
                   loopFrame>>

\* The loop's waker was called: the executor polls the loop again.
Resume ==
    /\ pc = "suspended"
    /\ woken
    /\ pc' = "poll"
    /\ woken' = FALSE
    /\ hook_pos' = 1
    /\ pass_ready' = FALSE
    /\ UNCHANGED <<cell, guard, order, task, timer, term_queue, sub_queue, sub_waker,
                   stale, tick, loopFrame>>

\* The task's timer fires and calls the waker it was given.
TimerFire ==
    /\ pc # "exited"
    /\ timer = "armed"
    /\ timer' = "off"
    /\ woken' = TRUE
    /\ UNCHANGED <<cell, guard, pc, order, hook_pos, pass_ready, task, term_queue,
                   sub_queue, sub_waker, stale, tick, loopFrame>>

\* The user presses a key: the event stream has an event and calls the
\* waker that a suspended Terminal::wait registered.
EventArrives(kind) ==
    /\ pc # "exited"
    /\ Len(term_queue) < MaxEvents
    /\ term_queue' = Append(term_queue, kind)
    /\ woken' = (woken \/ pc = "suspended")
    /\ UNCHANGED <<cell, guard, pc, order, hook_pos, pass_ready, task, timer,
                   sub_queue, sub_waker, stale, tick, loopFrame>>

\* What the program and its executor do by themselves.
LoopStep ==
    \/ \E mutate, exit \in BOOLEAN : LoopRender(mutate, exit)
    \/ PollStateHook
    \/ TaskTryWrite
    \/ TaskDerefMut
    \/ TaskDropGuard
    \/ TaskAwait
    \/ TaskFinish
    \/ PollFutureIdle
    \/ \E mutate \in BOOLEAN : PollEventsHook(mutate)
    \/ PollDone
    \/ TerminalWait
    \/ Resume

NextLoop ==
    \/ LoopStep
    \/ TimerFire
    \/ \E kind \in EventKinds : EventArrives(kind)

\* The executor runs the loop whenever it can run, and an armed timer
\* fires; nothing says that the user ever presses a key.
FairSpecLoop == InitLoop /\ [][NextLoop]_vars /\ WF_vars(LoopStep) /\ WF_vars(TimerFire)

MaxTicks == 3

\* AddAssign for State: try_write, and when it gives a guard, *guard += rhs
\* and the guard's drop.
StateAddAssign(c, g, n, rhs) ==
    \* "state += rhs" writes value + rhs through the guard
    StateSet(c, g, n, c.value + rhs)

\* The Counter's hooks in the order of its calls.
CounterOrder == <<"state", "future">>

InitCounter ==
    /\ arena = [i \in InstIds |-> IF i = RootId THEN NewInst(RootKey, "Root") ELSE NoInst]
    /\ nextId = RootId + 1
    /\ dropCount = [i \in InstIds |-> 0]
    /\ panicked = FALSE
    /\ given = NoRender
    /\ log = <<>>
    /\ lastPoll = NoPoll
    /\ IdleHooks
    /\ IdleCell
    /\ pc = "render"
    /\ order = CounterOrder
    /\ hook_pos = 1
    /\ pass_ready = FALSE
    /\ woken = FALSE
    /\ task = [alive |-> TRUE, writes |-> 0, awaits |-> 0]
    /\ timer = "off"
    /\ term_queue = <<>>
    /\ sub_queue = 0
    /\ sub_waker = FALSE
    /\ stale = FALSE
    /\ tick = 0
    /\ IdleRest

counterFrame == <<guard, order, term_queue, sub_queue, sub_waker, stale, tick, loopFrame>>

\* Tree::render: the update of the Counter (its hooks exist after the
\* first) and the draw; then the loop waits.
CounterRender ==
    /\ pc = "render"
    /\ passes' = passes + 1
    /\ pc' = "poll"
    /\ hook_pos' = 1
    /\ pass_ready' = FALSE
    /\ UNCHANGED <<cell, woken, task, timer, guard, order, term_queue, sub_queue,
                   sub_waker, stale, tick, readers, wake_count, result, last_op,
                   prev_op, treeVars, hookVars, ctxVars, ownerVars, moreVars>>

CounterAt(kind) == pc = "poll" /\ hook_pos <= Len(order) /\ order[hook_pos] = kind

\* The poll reaches the use_state hook.
CounterPollState ==
    /\ CounterAt("state")
    /\ \E r \in {StatePollChange(cell, Borrowed(guard, readers))} :
          /\ cell' = r.hook
          /\ pass_ready' = (pass_ready \/ r.ready)
    /\ hook_pos' = hook_pos + 1
    /\ UNCHANGED <<pc, woken, task, timer, counterFrame>>

\* The poll reaches the use_future hook and the task can run: on its first
\* poll it starts to sleep; after a sleep it adds 1 to the state and sleeps
\* again. Its poll is Pending, and so is the hook's.
CounterTaskRuns ==
    /\ CounterAt("future")
    /\ task.alive
    /\ timer = "off"
    /\ \E r \in {IF task.awaits > 0 THEN StateAddAssign(cell, guard, readers, 1)
                 ELSE NoSet} :
          /\ cell' = r.cell
          /\ woken' = (woken \/ r.wakes > 0)
          /\ task' = [task EXCEPT !.awaits = @ + 1,
                                  !.writes = IF r.some THEN @ + 1 ELSE @]
    /\ timer' = "armed"
    /\ hook_pos' = hook_pos + 1
    /\ UNCHANGED <<pc, pass_ready, counterFrame>>

\* The poll reaches the use_future hook while the task sleeps.
CounterPollFutureIdle ==
    /\ CounterAt("future")
    /\ timer = "armed"
    /\ hook_pos' = hook_pos + 1
    /\ UNCHANGED <<cell, pc, pass_ready, woken, task, timer, counterFrame>>

\* Every hook is polled: root_component.wait() is Ready and the loop
\* renders again, or it is Pending and select polls terminal.wait().
CounterPollDone ==
    /\ pc = "poll"
    /\ hook_pos > Len(order)
    /\ pc' = IF pass_ready THEN "render" ELSE "terminal"
    /\ UNCHANGED <<cell, hook_pos, pass_ready, woken, task, timer, counterFrame>>

\* Terminal::wait takes the key events of the stream, finds no subscriber
\* and waits on.
CounterTerminalWait ==
    /\ pc = "terminal"
    /\ term_queue' = <<>>
    /\ pc' = "suspended"
    /\ UNCHANGED <<cell, hook_pos, pass_ready, woken, task, timer, guard, order,
                   sub_queue, sub_waker, stale, tick, loopFrame>>

\* The loop's waker was called: the executor polls the loop again.
CounterResume ==
    /\ pc = "suspended"
    /\ woken
    /\ pc' = "poll"
    /\ woken' = FALSE
    /\ hook_pos' = 1
    /\ pass_ready' = FALSE
    /\ UNCHANGED <<cell, task, timer, counterFrame>>

\* The sleep of the task ends (the n-th tick ends the n-th sleep) and calls
\* the waker it was given.
CounterTimerFire ==
    /\ timer = "armed"
    /\ task.awaits <= MaxTicks
    /\ timer' = "off"
    /\ woken' = TRUE
    /\ UNCHANGED <<cell, pc, hook_pos, pass_ready, task, counterFrame>>

\* The user presses a key other than ctrl-c.
CounterKey ==
    /\ Len(term_queue) < MaxEvents
    /\ term_queue' = Append(term_queue, "key")
    /\ woken' = (woken \/ pc = "suspended")
    /\ UNCHANGED <<cell, pc, hook_pos, pass_ready, task, timer, guard, order,
                   sub_queue, sub_waker, stale, tick, loopFrame>>

CounterStep ==
    \/ CounterRender
    \/ CounterPollState
    \/ CounterTaskRuns
    \/ CounterPollFutureIdle
    \/ CounterPollDone
    \/ CounterTerminalWait
    \/ CounterResume

NextCounter ==
    \/ CounterStep
    \/ CounterTimerFire
    \/ CounterKey

\* The executor runs the loop whenever it can run, and the timer ticks.
FairSpecCounter ==
    InitCounter /\ [][NextCounter]_vars /\ WF_vars(CounterStep) /\ WF_vars(CounterTimerFire)

\* The ticks so far: the sleeps of the task that have ended.
Ticks == IF timer = "armed" THEN task.awaits - 1 ELSE task.awaits

\* The loop is suspended and nothing has called its waker.
CounterAtRest == pc = "suspended" /\ ~woken

\* ------------------------------------------------------------------------
\* C11: in the counter, whenever the loop is at rest after n ticks the cell
\* reads n and n render passes have followed the first one, one per tick;
\* no pass happens without a tick; and each of the first three ticks is
\* followed by its count in the cell and by its pass.
\* ------------------------------------------------------------------------
C11_OnePassPerTick ==
    /\ [](CounterAtRest => (cell.value = Ticks /\ passes = 1 + Ticks))
    /\ [](passes <= 1 + Ticks)
    /\ \A n \in 1..3 : (Ticks = n) ~> (cell.value >= n /\ passes >= n + 1)

\* The third tick has been counted and rendered.
C11_Witness == CounterAtRest /\ Ticks = 3 /\ cell.value = 3 /\ passes = 4 /\ task.writes = 3

\* ========================================================================
\* A tree that is built by the first render and then rendered again with
\* unchanged elements, between state changes and polls: the updates and
\* waits of Tree::render_loop for a component whose output does not change.
\* ========================================================================
InitRerender == InitTree

RECURSIVE ElementsOf(_, _)
\* The child list that built the children of instance id.
ElementsOf(ar, id) ==
    [j \in 1..Len(Children(ar, id)) |->
        [key |-> ar[Children(ar, id)[j]].key,
         type |-> ar[Children(ar, id)[j]].type,
         children |-> ElementsOf(ar, Children(ar, id)[j])]]

\* Tree::render with the elements of the render before it.
RenderSame ==
    /\ ~arena[RootId].first_update
    /\ Render(ElementsOf(arena, RootId))

NextRerender ==
    \/ \E elements \in ChildLists : FirstRender(elements)
    \/ RenderSame
    \/ \E id \in InstIds, i \in 1..MaxHooks, v \in 1..MaxValue : SetState(id, i, v)
    \/ \E done \in BOOLEAN : PollTree(done)

SpecRerender == InitRerender /\ [][NextRerender]_vars

\* No use_state hook of a live instance has a change to report.
NoChange(ar) ==
    \A id \in InstIds :
        ar[id].live =>
            \A i \in 1..Len(ar[id].hooks) :
                ar[id].hooks[i].type = "state" => ~ar[id].hooks[i].is_changed

\* What the poll of the root returns in the tree ar.
RootPollReady(ar, done) == InstPollChange([arena |-> ar, res |-> NoPoll], RootId, done).ready

\* ------------------------------------------------------------------------
\* C12: a render that is given the child list the tree was built from, with
\* no state changed, leaves every child collection with the same keys in
\* the same order, held by the same instances (none built, none dropped),
\* and the poll_change that follows it returns Pending.
\* ------------------------------------------------------------------------
C12_RerunIsIdle ==
    [][(~arena[RootId].first_update /\ given' = ElementsOf(arena, RootId)) =>
          /\ nextId' = nextId
          /\ dropCount' = dropCount
          /\ \A id \in InstIds :
                /\ arena'[id].live = arena[id].live
                /\ arena'[id].key = arena[id].key
                /\ arena'[id].type = arena[id].type
                /\ Children(arena', id) = Children(arena, id)
                /\ arena'[id].hooks = arena[id].hooks
          /\ InOrder(arena', RootId, given')
          /\ NoChange(arena) =>
                \A done \in BOOLEAN : ~RootPollReady(arena', done)]_vars

\* The tree after such a render: two children, one with a child of its
\* own, every instance kept and none built, a waker registered by an
\* earlier poll and no change to report.
C12_Witness ==
    /\ given # NoRender
    /\ given = ElementsOf(arena, RootId)
    /\ Len(given) = 2
    /\ \E j \in 1..2 : given[j].children # <<>>
    /\ \A e \in Range(log) : e.op \in {"update", "reuse", "updated"}
    /\ Cardinality({j \in 1..Len(log) : log[j].op = "reuse"}) = 3
    /\ NoChange(arena)
    /\ \E id \in InstIds : arena[id].live /\ \E i \in 1..Len(arena[id].hooks) :
          arena[id].hooks[i].type = "state" /\ arena[id].hooks[i].waker

\* A key event has arrived at the suspended loop of FairSpecLoop (the wait
\* that suspended had emptied the stream).
KeyWhileSuspended ==
    /\ pc = "suspended"
    /\ term_queue # <<>>
    /\ Head(term_queue) = "key"

\* ------------------------------------------------------------------------
\* C13: a terminal event other than ctrl-c that arrives while the render
\* loop is suspended ends the suspension and is followed by a new pass of
\* the loop, whether or not the handler of use_events changes any state.
\* ------------------------------------------------------------------------
C13_EventCausesPass ==
    /\ (KeyWhileSuspended /\ tick = 0) ~> (tick = 1 \/ pc = "exited")
    /\ (KeyWhileSuspended /\ tick = 1) ~> (tick = 0 \/ pc = "exited")

\* A ctrl-c key press has arrived at the suspended loop of FairSpecLoop.
CtrlCWhileSuspended ==
    /\ pc = "suspended"
    /\ term_queue # <<>>
    /\ Head(term_queue) = "ctrl_c"

\* ------------------------------------------------------------------------
\* C14: when ctrl-c arrives while the render loop is suspended, the loop
\* ends (render_loop returns Ok) and no render pass starts after the
\* arrival, whether or not the tree has a change to report.
\* ------------------------------------------------------------------------
C14_CtrlCEndsLoop ==
    /\ []((CtrlCWhileSuspended /\ tick = 0) => [](tick = 0))
    /\ []((CtrlCWhileSuspended /\ tick = 1) => [](tick = 1))
    /\ CtrlCWhileSuspended ~> (pc = "exited")

\* ========================================================================
\* The context stack (context.rs, hooks/use_context.rs) during one render:
\* update_children calls nest, each with or without a context, and the
\* components being updated look contexts up, immutably or mutably, and
\* keep or drop the guards they get. A guard got inside an update_children
\* call is gone when the call returns.
\* ========================================================================
MaxStack == 3
MaxFrames == 3
MaxGuards == 2

\* The payload types: SystemContext at the root, and two types that
\* components provide and look up.
CtxTypes == {"System", "T", "U"}
LookupTypes == {"T", "U"}
CtxModes == {"Ref", "Mut", "Owned"}

\* Context::form_ref / form_mut / owned of a value of type t.
NewContext(t, mode) == [type |-> t, mode |-> mode, readers |-> 0, writer |-> FALSE]

\* The contexts an update_children call may be given.
GivenContexts == {NewContext("T", mode) : mode \in CtxModes} \cup {NewContext("U", "Owned")}

\* The entries of a stack without the state of their RefCells.
Entries(stk) == [i \in 1..Len(stk) |-> [type |-> stk[i].type, mode |-> stk[i].mode]]

\* A downcast that succeeds whatever the type of the payload.
DowncastAny(e, t) == TRUE

\* Context::downcast_ref::<t>
DowncastRef(e, t) == e.type = t

\* Context::downcast_mut::<t>: a Context::Ref gives None.
DowncastMut(e, t) == e.mode # "Ref" /\ e.type = t

\* RefCell::try_borrow / try_borrow_mut succeed.
CanBorrow(e) == ~e.writer
CanBorrowMut(e) == ~e.writer /\ e.readers = 0

RECURSIVE ScanRef(_, _, _), ScanMut(_, _, _)
\* The loop of get_context over stack.iter().rev(), from position i down:
\* the position of the entry it returns, 0 for None.
ScanRef(stk, i, t) ==
    IF i = 0 THEN 0
    ELSE IF CanBorrow(stk[i]) /\ DowncastRef(stk[i], t) THEN i
    ELSE ScanRef(stk, i - 1, t)

\* The loop of get_context_mut.
ScanMut(stk, i, t) ==
    IF i = 0 THEN 0
    ELSE IF CanBorrowMut(stk[i]) /\ DowncastMut(stk[i], t) THEN i
    ELSE ScanMut(stk, i - 1, t)

\* ContextStack::get_context::<t> and get_context_mut::<t>
GetContext(stk, t) == ScanRef(stk, Len(stk), t)
GetContextMut(stk, t) == ScanMut(stk, Len(stk), t)

\* The lookups: the two of ContextStack and the four of UseContext for
\* Hooks, which first need the handle to have a context stack.
Lookups == {"get_context", "get_context_mut", "try_use_context", "try_use_context_mut",
            "use_context", "use_context_mut"}
IsMutLookup(op) == op \in {"get_context_mut", "try_use_context_mut", "use_context_mut"}
IsUseLookup(op) == op \in {"use_context", "use_context_mut"}
IsHooksLookup(op) == op \notin {"get_context", "get_context_mut"}

\* What lookup op of type t returns; avail: the Hooks handle has a stack.
Lookup(stk, op, t, avail) ==
    LET idx == IF IsHooksLookup(op) /\ ~avail THEN 0
               ELSE IF IsMutLookup(op) THEN GetContextMut(stk, t) ELSE GetContext(stk, t)
    IN  [op |-> op, type |-> t, idx |-> idx, panic |-> IsUseLookup(op) /\ idx = 0]

\* stack.pop() that removes nothing.
PopNothing(stk) == stk

\* shorter_lived_self.stack.pop()
PopContext(stk) == SubSeq(stk, 1, Len(stk) - 1)

\* The drop of guard g: the RefCell of its entry is released.
Release(stk, g) ==
    IF g.idx > Len(stk) THEN stk
    ELSE [stk EXCEPT ![g.idx] = IF g.mut THEN [@ EXCEPT !.writer = FALSE]
                                ELSE [@ EXCEPT !.readers = @ - 1]]

RECURSIVE ReleaseAll(_, _)
ReleaseAll(stk, gs) ==
    IF gs = <<>> THEN stk ELSE ReleaseAll(Release(stk, Head(gs)), Tail(gs))

\* The guards of gs that were got outside the call at depth d, in order.
RECURSIVE FilterGuards(_, _)
FilterGuards(gs, d) ==
    IF gs = <<>> THEN <<>>
    ELSE IF Head(gs).frame < d THEN <<Head(gs)>> \o FilterGuards(Tail(gs), d)
    ELSE FilterGuards(Tail(gs), d)

\* What the last operation on the stack was, when it was no lookup.
NoLookupBut(op) == [NoLookup EXCEPT !.op = op]

ctxFrame == <<treeVars, hookVars, cellVars, loopVars, counterVars, ownerVars, moreVars>>

InitContext == InitTree

\* update_children(elements, context) begins: with_context pushes the
\* context, if there is one, and runs the closure. c = <<>>: no context.
CtxWithContext(c) ==
    /\ ~ctx_panic
    /\ Len(frames) < MaxFrames
    /\ c # <<>> => Len(stack) < MaxStack
    /\ stack' = IF c = <<>> THEN stack ELSE Append(stack, c[1])
    /\ frames' = Append(frames, [pushed |-> c # <<>>, saved |-> Entries(stack)])
    /\ found' = NoLookupBut("with_context")
    /\ UNCHANGED <<guards, ctx_panic, ctxFrame>>

\* The closure returns: its guards are gone, with_context pops what it
\* pushed, and update_children returns.
CtxReturn ==
    /\ ~ctx_panic
    /\ frames # <<>>
    /\ \E inner \in {SelectSeq(guards, LAMBDA g : g.frame >= Len(frames))} :
       \E stk \in {ReleaseAll(stack, inner)} :
          /\ stack' = IF Last(frames).pushed THEN PopContext(stk) ELSE stk
          /\ guards' = FilterGuards(guards, Len(frames))
    /\ frames' = SubSeq(frames, 1, Len(frames) - 1)
    /\ found' = NoLookupBut("return")
    /\ UNCHANGED <<ctx_panic, ctxFrame>>

\* A component being updated looks a context of type t up; keep: it keeps
\* the guard. A use_context that finds nothing panics.
CtxLookup(op, t, avail, keep) ==
    /\ ~ctx_panic
    /\ \E r \in {Lookup(stack, op, t, avail)} :
          /\ found' = r
          /\ ctx_panic' = r.panic
          /\ IF r.idx # 0 /\ keep
               THEN /\ Len(guards) < MaxGuards
                    /\ guards' = Append(guards, [idx |-> r.idx, mut |-> IsMutLookup(op),
                                                 frame |-> Len(frames)])
                    /\ stack' = [stack EXCEPT ![r.idx] =
                                    IF IsMutLookup(op) THEN [@ EXCEPT !.writer = TRUE]
                                    ELSE [@ EXCEPT !.readers = @ + 1]]
               ELSE UNCHANGED <<guards, stack>>
    /\ UNCHANGED <<frames, ctxFrame>>

\* A guard is dropped.
CtxDropGuard(j) ==
    /\ ~ctx_panic
    /\ j \in 1..Len(guards)
    /\ stack' = Release(stack, guards[j])
    /\ guards' = SubSeq(guards, 1, j - 1) \o SubSeq(guards, j + 1, Len(guards))
    /\ found' = NoLookupBut("drop")
    /\ UNCHANGED <<frames, ctx_panic, ctxFrame>>

NextContext ==
    \/ \E c \in {<<>>} \cup {<<g>> : g \in GivenContexts} : CtxWithContext(c)
    \/ CtxReturn
    \/ \E op \in Lookups, t \in LookupTypes, avail, keep \in BOOLEAN : CtxLookup(op, t, avail, keep)
    \/ \E j \in 1..MaxGuards : CtxDropGuard(j)

SpecContext == InitContext /\ [][NextContext]_vars

\* The position of the innermost entry of type t, 0 if there is none.
Innermost(stk, t) ==
    IF \E i \in 1..Len(stk) : stk[i].type = t
      THEN CHOOSE i \in 1..Len(stk) :
               stk[i].type = t /\ \A j \in (i + 1)..Len(stk) : stk[j].type # t
      ELSE 0

IsWithContext == Len(frames') = Len(frames) + 1
IsReturn == Len(frames') = Len(frames) - 1
IsLookup == found'.op \in Lookups

\* ------------------------------------------------------------------------
\* C15: with_context(Some(c), f) pushes exactly c before f runs and pops
\* exactly that entry before it returns: when an update_children call
\* returns, at any depth, the stack holds the entries it held when the call
\* began, in the same order, and no lookup returns an entry that is not on
\* the stack.
\* ------------------------------------------------------------------------
C15_StackDiscipline ==
    [][/\ IsWithContext =>
            /\ Last(frames').saved = Entries(stack)
            /\ IF Last(frames').pushed
                 THEN /\ Len(stack') = Len(stack) + 1
                      /\ SubSeq(Entries(stack'), 1, Len(stack)) = Entries(stack)
                      /\ CanBorrowMut(Last(stack'))
                 ELSE stack' = stack
       /\ IsReturn =>
            /\ Entries(stack') = Last(frames).saved
            /\ Len(stack') = Len(stack) - (IF Last(frames).pushed THEN 1 ELSE 0)
       /\ IsLookup => found'.idx <= Len(stack)
       /\ Len(stack') = 1 + Cardinality({i \in 1..Len(frames') : frames'[i].pushed})]_vars

\* An update_children call that pushed a context has returned inside
\* another one that pushed a context too, and a guard on the outer context
\* is still alive.
C15_Witness ==
    /\ found.op = "return"
    /\ Len(frames) = 1
    /\ frames[1].pushed
    /\ Len(stack) = 2
    /\ Len(guards) = 1
    /\ guards[1].idx = 2

\* ------------------------------------------------------------------------
\* C16: get_context::<T>() returns the most recently pushed entry whose
\* payload has type T, the innermost of several, and None only if there is
\* none, whatever guards of earlier lookups are alive.
\* ------------------------------------------------------------------------
C16_InnermostWins ==
    [][(IsLookup /\ found'.op = "get_context") =>
          found'.idx = Innermost(stack, found'.type)]_vars

\* ------------------------------------------------------------------------
\* C17: get_context_mut::<T>() selects the entry that the immutable lookup
\* selects, the first entry of type T from the top of the stack, and never
\* an entry below a nearer entry of type T, however that nearer entry was
\* pushed (owned, mutable reference, immutable reference).
\* ------------------------------------------------------------------------
C17_MutSelectsSameEntry ==
    [][(IsLookup /\ found'.op = "get_context_mut" /\ found'.idx # 0) =>
          found'.idx = Innermost(stack, found'.type)]_vars

\* ------------------------------------------------------------------------
\* C18: when no entry of the requested type is on the stack, get_context,
\* get_context_mut, try_use_context and try_use_context_mut return None and
\* use_context and use_context_mut panic; a lookup that returns an entry
\* returns one of the requested type, and nothing else panics.
\* ------------------------------------------------------------------------
C18_NotFound ==
    [][IsLookup =>
          /\ found'.idx # 0 =>
                /\ found'.idx \in 1..Len(stack)
                /\ stack[found'.idx].type = found'.type
          /\ Innermost(stack, found'.type) = 0 =>
                /\ found'.idx = 0
                /\ found'.panic <=> IsUseLookup(found'.op)
          /\ found'.panic => (IsUseLookup(found'.op) /\ found'.idx = 0)
          /\ ctx_panic' = found'.panic]_vars

\* use_context_mut::<T>() has panicked under two nested contexts of
\* another type, with nothing borrowed.
C18_Witness ==
    /\ ctx_panic
    /\ found.op = "use_context_mut"
    /\ found.type = "T"
    /\ Len(stack) = 3
    /\ \A i \in 1..Len(stack) : stack[i].type # "T" /\ CanBorrowMut(stack[i])

\* ------------------------------------------------------------------------
\* The cell after its owner is gone. UseStateImpl keeps the Owner of the
\* storage next to the State handle; dropping the hook (with the instance
\* that holds it) drops the Owner, and the copies of the handle survive.
\* ------------------------------------------------------------------------

\* The calls made through a handle.
HandleOps == {"read", "get", "write", "try_read", "try_write", "set", "add_assign"}

\* inner.try_read() / inner.try_write() on a dropped box give
\* Err(Dropped), which State::try_read and State::try_write turn into None.
\* read (and get, which reads) and write unwrap it with expect; set and +=
\* run their body only `if let Some`.
AfterOwnerDrop(op) ==
    CASE op \in {"read", "get", "write"} -> "panic"
      [] op \in {"try_read", "try_write"} -> "None"
      [] OTHER -> "returns"

InitOwner == InitTree

\* The calls on the live cell.
OwnerLive == ~owner_dropped /\ NextCell

\* The instance that called use_state is dropped, and its hooks with it. The
\* guards borrow from the handle's storage; none is outstanding here.
OwnerDrop ==
    /\ ~owner_dropped
    /\ ~Borrowed(guard, readers)
    /\ owner_dropped' = TRUE
    /\ last_op' = "owner_drop"
    /\ prev_op' = last_op
    /\ wake_count' = 0
    /\ result' = "none"
    /\ UNCHANGED <<cell, guard, readers, treeVars, hookVars, loopVars, counterVars, ctxVars, moreVars>>

\* A call through a surviving copy of the handle.
OwnerDroppedCall(op) ==
    /\ owner_dropped
    /\ result' = AfterOwnerDrop(op)
    /\ last_op' = op
    /\ prev_op' = last_op
    /\ wake_count' = 0
    /\ UNCHANGED <<cell, guard, readers, treeVars, hookVars, loopVars, restVars>>

NextOwner ==
    \/ OwnerLive
    \/ OwnerDrop
    \/ \E op \in HandleOps : OwnerDroppedCall(op)

SpecOwner == InitOwner /\ [][NextOwner]_vars

\* ------------------------------------------------------------------------
\* C19: once the owner of the cell has been dropped, read, write, set and
\* the compound assignments through a surviving handle fail with the
\* use-after-release error, leave the cell as it was and invoke no waker.
\* ------------------------------------------------------------------------
C19_UseAfterRelease ==
    [][(owner_dropped /\ last_op' \in {"read", "write", "set", "add_assign"}) =>
          /\ result' = "panic"
          /\ wake_count' = 0
          /\ cell' = cell]_vars

storeFrame == <<baseVars, copyVars, termVars, drawVars, memoVars, histVars, handlerVars, rdVars, pollAllVars, lifeVars, exitVars, futVars>>

NoWakes == [c \in Consumers |-> 0]

\* The consumers whose waker is in the cell's waker map.
Registered(s) == {s.wakers[k] : k \in StoreKeys} \ {None}

\* A drop of a written guard that wakes only one of the stored wakers.
StoreDropWakesOne(s, g) ==
    IF g.is_deref_mut
      THEN [store |-> [s EXCEPT !.is_changed = TRUE],
            wakes |-> [c \in Consumers |->
                         IF Registered(s) # {} /\
                            c = CHOOSE x \in Registered(s) : \A y \in Registered(s) : x <= y
                           THEN 1 ELSE 0]]
      ELSE [store |-> s, wakes |-> NoWakes]

\* Drop for StoreStateMut: wake_by_ref on every waker of the map, which
\* keeps its entries.
StoreDrop(s, g) ==
    IF g.is_deref_mut
      THEN [store |-> [s EXCEPT !.is_changed = TRUE],
            wakes |-> [c \in Consumers |->
                         Cardinality({k \in StoreKeys : s.wakers[k] = c})]]
      ELSE [store |-> s, wakes |-> NoWakes]

\* A poll that reports the change and keeps the stored wakers.
StorePollKeepsWakers(s, key, c, borrowed) ==
    IF borrowed THEN [store |-> s, ready |-> FALSE]
    ELSE IF s.is_changed
      THEN [store |-> [s EXCEPT !.is_changed = FALSE], ready |-> TRUE]
      ELSE [store |-> [s EXCEPT !.wakers[key] = c], ready |-> FALSE]

\* UseStoreImpl::poll_change of consumer c, whose key is key.
StorePollChange(s, key, c, borrowed) ==
    IF borrowed THEN [store |-> s, ready |-> FALSE]
    ELSE IF s.is_changed
      THEN [store |-> [s EXCEPT !.is_changed = FALSE,
                                !.wakers = [k \in StoreKeys |-> None]],
            ready |-> TRUE]
      ELSE [store |-> [s EXCEPT !.wakers[key] = c], ready |-> FALSE]

InitStore == InitTree

\* The first update of consumer c, an instance with key k:
\* post_component_update stores the key.
StoreConsumerUpdate(c, k) ==
    /\ skeys[c] = None
    /\ skeys' = [skeys EXCEPT ![c] = k]
    /\ swakes' = NoWakes
    /\ sop' = [op |-> "update", who |-> c, result |-> "none"]
    /\ UNCHANGED <<store, sguard, storeFrame>>

\* StoreState::try_write (kind "try_write") and StoreState::write (kind
\* "write"), which unwraps the Option with expect.
StoreWrite(kind) ==
    LET r == TryWrite(sguard, 0)
    IN  /\ sguard' = r.guard
        /\ sop' = [op |-> kind, who |-> 0,
                   result |-> IF r.some THEN "guard"
                              ELSE IF kind = "write" THEN "panic" ELSE "None"]
        /\ swakes' = NoWakes
        /\ UNCHANGED <<store, skeys, storeFrame>>

\* *guard = v
StoreDerefMut(v) ==
    /\ sguard.held
    /\ store' = [store EXCEPT !.value = v]
    /\ sguard' = [sguard EXCEPT !.is_deref_mut = TRUE]
    /\ sop' = [op |-> "deref_mut", who |-> 0, result |-> "none"]
    /\ swakes' = NoWakes
    /\ UNCHANGED <<skeys, storeFrame>>

\* The guard goes out of scope.
StoreDropGuard ==
    /\ sguard.held
    /\ LET r == StoreDrop(store, sguard)
       IN  store' = r.store /\ swakes' = r.wakes
    /\ sguard' = NoGuard
    /\ sop' = [op |-> IF sguard.is_deref_mut THEN "drop_mutated" ELSE "drop_unmutated",
               who |-> 0, result |-> "none"]
    /\ UNCHANGED <<skeys, storeFrame>>

\* The poll of consumer c reaches its use_store hook.
StorePoll(c) ==
    /\ skeys[c] # None
    /\ LET r == StorePollChange(store, skeys[c], c, sguard.held)
       IN  /\ store' = r.store
           /\ sop' = [op |-> "poll", who |-> c,
                      result |-> IF r.ready THEN "Ready" ELSE "Pending"]
    /\ swakes' = NoWakes
    /\ UNCHANGED <<sguard, skeys, storeFrame>>

NextStore ==
    \/ \E c \in Consumers, k \in StoreKeys : StoreConsumerUpdate(c, k)
    \/ \E kind \in {"try_write", "write"} : StoreWrite(kind)
    \/ \E v \in 0..MaxValue : StoreDerefMut(v)
    \/ StoreDropGuard
    \/ \E c \in Consumers : StorePoll(c)

SpecStore == InitStore /\ [][NextStore]_vars

\* ------------------------------------------------------------------------
\* C26: when the guard of a mutation of the shared StoreState is dropped,
\* every consumer whose waker is in the cell's waker map is woken exactly
\* once and nobody else is, and the change is marked; the next poll of a
\* use_store hook that finds the change reports it and leaves the waker map
\* empty.
\* ------------------------------------------------------------------------
C26_StoreWakesAll ==
    [][/\ sop'.op = "drop_mutated" =>
             /\ \A c \in Consumers :
                   swakes'[c] = (IF c \in Registered(store) THEN 1 ELSE 0)
             /\ store'.is_changed
       /\ (sop'.op = "poll" /\ store.is_changed /\ ~sguard.held) =>
             /\ sop'.result = "Ready"
             /\ Registered(store') = {}
             /\ ~store'.is_changed]_vars

\* Two consumers have been woken by one mutation.
C26_Witness ==
    /\ sop.op = "drop_mutated"
    /\ \A c \in Consumers : swakes[c] = 1
    /\ Registered(store) = Consumers
    /\ store.is_changed

\* ========================================================================
\* Writers of a State cell and of a StoreState cell: try_write, write, the
\* write through the guard and the guard's drop, on both cells.
\* ========================================================================

InitWriters == InitTree

\* State::write: try_write, unwrapped with expect.
CellWrite ==
    LET r == TryWrite(guard, readers)
    IN  /\ guard' = r.guard
        /\ last_op' = IF r.some THEN "write" ELSE "write_panic"
        /\ prev_op' = last_op
        /\ wake_count' = 0
        /\ result' = IF r.some THEN "none" ELSE "panic"
        /\ UNCHANGED <<cell, readers, treeVars, hookVars, loopVars, restVars>>

NextWriters ==
    \/ CellTryWrite
    \/ CellWrite
    \/ \E v \in 0..MaxValue : CellDerefMut(v)
    \/ CellDropGuard
    \/ \E kind \in {"try_write", "write"} : StoreWrite(kind)
    \/ \E v \in 0..MaxValue : StoreDerefMut(v)
    \/ StoreDropGuard

SpecWriters == InitWriters /\ [][NextWriters]_vars

copyFrame == <<baseVars, storeVars, termVars, drawVars, memoVars, histVars, handlerVars, rdVars, pollAllVars, lifeVars, exitVars, futVars>>

InitCopies == InitTree

\* A read that returns what the slot held when the handle was made.
ReadInitial(cs, h) == 0

\* State::read / get through handle h: the value in the slot h points to.
ReadThrough(cs, h) == cs[h]

\* Clone / Copy of the i-th copy: the same pointer.
CopyHandle(i) ==
    /\ i \in 1..Len(copies)
    /\ Len(copies) < MaxCopies
    /\ copies' = Append(copies, copies[i])
    /\ hread' = NoRead
    /\ UNCHANGED <<hcells, hguard, hwritten, copyFrame>>

\* A later update calls use_state again: use_hook returns the existing hook
\* c, and use_state a copy of its handle.
UseStateAgain(c) ==
    /\ Len(copies) < MaxCopies
    /\ copies' = Append(copies, c)
    /\ hread' = NoRead
    /\ UNCHANGED <<hcells, hguard, hwritten, copyFrame>>

\* A copy goes out of scope (the first two stay with the component).
ForgetCopy ==
    /\ Len(copies) > MaxCells
    /\ copies' = SubSeq(copies, 1, Len(copies) - 1)
    /\ hread' = NoRead
    /\ UNCHANGED <<hcells, hguard, hwritten, copyFrame>>

\* write() through the i-th copy while nothing is borrowed.
CopyWrite(i) ==
    /\ i \in 1..Len(copies)
    /\ hguard.slot = None
    /\ hguard' = [slot |-> copies[i], is_deref_mut |-> FALSE]
    /\ hread' = NoRead
    /\ UNCHANGED <<hcells, copies, hwritten, copyFrame>>

\* *guard = v
CopyDerefMut(v) ==
    /\ hguard.slot # None
    /\ hcells' = [hcells EXCEPT ![hguard.slot] = v]
    /\ hguard' = [hguard EXCEPT !.is_deref_mut = TRUE]
    /\ hread' = NoRead
    /\ UNCHANGED <<copies, hwritten, copyFrame>>

\* The guard is released.
CopyDropGuard ==
    /\ hguard.slot # None
    /\ hguard' = [slot |-> None, is_deref_mut |-> FALSE]
    /\ hwritten' = IF hguard.is_deref_mut
                     THEN [hwritten EXCEPT ![hguard.slot] = hcells[hguard.slot]]
                     ELSE hwritten
    /\ hread' = NoRead
    /\ UNCHANGED <<hcells, copies, copyFrame>>

\* read() / get() through the i-th copy; with the write guard of that slot
\* outstanding the read does not return.
CopyRead(i) ==
    /\ i \in 1..Len(copies)
    /\ hguard.slot # copies[i]
    /\ hread' = [copy |-> i, value |-> ReadThrough(hcells, copies[i])]
    /\ UNCHANGED <<hcells, hguard, copies, hwritten, copyFrame>>

NextCopies ==
    \/ \E i \in 1..MaxCopies : CopyHandle(i)
    \/ \E c \in Cells : UseStateAgain(c)
    \/ ForgetCopy
    \/ \E i \in 1..MaxCopies : CopyWrite(i)
    \/ \E v \in 0..MaxValue : CopyDerefMut(v)
    \/ CopyDropGuard
    \/ \E i \in 1..MaxCopies : CopyRead(i)

SpecCopies == InitCopies /\ [][NextCopies]_vars

\* ------------------------------------------------------------------------
\* C22: a read through any copy of a State handle returns the value that
\* the last released mutating write guard on that handle's cell left there
\* (the initial value before any), whichever copy the write went through
\* and however many copies were made since.
\* ------------------------------------------------------------------------
C22_CopiesShareSlot ==
    [][\A i \in 1..MaxCopies :
          CopyRead(i) => hread'.value = hwritten[copies[i]]]_vars

\* The second cell was written through one copy and read through another,
\* made after the write; the first cell still has its initial value.
C22_Witness ==
    /\ Len(copies) = 3
    /\ copies[3] = 2
    /\ hread = [copy |-> 3, value |-> 1]
    /\ hwritten = [c \in Cells |-> IF c = 2 THEN 1 ELSE 0]
    /\ hguard.slot = None

\* ========================================================================
\* The order of the steps of one render, read from its log.
\* ========================================================================

\* Where the log has the step of instance id with an op of ops (0: nowhere).
LogPos(ops, id) ==
    IF \E i \in 1..Len(log) : log[i].op \in ops /\ log[i].id = id
      THEN CHOOSE i \in 1..Len(log) : log[i].op \in ops /\ log[i].id = id
      ELSE 0

\* The child was looked up or constructed / its update began / its update
\* returned.
PlacedAt(id) == LogPos({"reuse", "new"}, id)
UpdateAt(id) == LogPos({"update"}, id)
UpdatedAt(id) == LogPos({"updated"}, id)

\* The children of p were processed one after the other, each with its
\* whole subtree, inside p's update.
ChildrenInTurn(p) ==
    LET kids == Children(arena, p)
    IN  \A j \in 1..Len(kids) :
           /\ UpdateAt(p) > 0
           /\ UpdateAt(p) < PlacedAt(kids[j])
           /\ PlacedAt(kids[j]) < UpdateAt(kids[j])
           /\ UpdateAt(kids[j]) < UpdatedAt(kids[j])
           /\ UpdatedAt(kids[j]) < UpdatedAt(p)
           /\ j > 1 => UpdatedAt(kids[j - 1]) < PlacedAt(kids[j])
           /\ \A i \in 1..Len(log) :
                 (log[i].op # "drop" /\ log[i].id \in ({kids[j]} \cup Descendants(arena, kids[j])))
                    <=> (log[i].op # "drop" /\ PlacedAt(kids[j]) <= i /\ i <= UpdatedAt(kids[j]))

\* ------------------------------------------------------------------------
\* C23: after a render that returned, every update_children call of it has
\* processed its children in list order, and the steps of each child (its
\* lookup or construction, its update and the reconciliation of its whole
\* subtree) lie between the end of the previous sibling's update and the
\* lookup of the next sibling.
\* ------------------------------------------------------------------------
C23_ChildrenInListOrder ==
    (log # <<>> /\ ~panicked) =>
        /\ InOrder(arena, RootId, given)
        /\ \A j \in 1..Len(given) :
              InOrder(arena, Children(arena, RootId)[j], given[j].children)
        /\ \A p \in InstIds : (arena[p].live /\ UpdateAt(p) > 0) => ChildrenInTurn(p)

\* A render of two children, the first with a child of its own: the
\* grandchild's update lies inside the first child's and before the second
\* child is looked up.
C23_Witness ==
    /\ log # <<>> /\ ~panicked
    /\ Len(given) = 2
    /\ Len(given[1].children) = 1
    /\ LET kids == Children(arena, RootId)
           g == Children(arena, kids[1])[1]
       IN  /\ UpdateAt(kids[1]) < PlacedAt(g)
           /\ UpdatedAt(g) < UpdatedAt(kids[1])
           /\ UpdatedAt(kids[1]) < PlacedAt(kids[2])
    /\ \E i \in 1..Len(log) : log[i].op = "drop"

\* ========================================================================
\* The Terminal's event subscriptions (terminal/mod.rs).
\* ========================================================================

termFrame == <<baseVars, storeVars, copyVars, drawVars, memoVars, histVars, handlerVars, rdVars, pollAllVars, lifeVars, exitVars, futVars>>

InitTerm == InitTree

\* A retain that keeps every entry and delivers to the live ones.
RetainKeepsAll(subs, alive, pend, wk, event) ==
    [subscribers |-> subs,
     pending |-> [s \in SubIds |->
                    IF s \in alive /\ \E i \in 1..Len(subs) : subs[i] = s
                      THEN Append(pend[s], event) ELSE pend[s]],
     waker |-> [s \in SubIds |-> wk[s] /\ s \notin alive]]

\* The entry s is kept in front of what retain made of the rest.
Kept(s, r) == [r EXCEPT !.subscribers = <<s>> \o @]

RECURSIVE Retain(_, _, _, _, _)
\* subscribers.retain(...) of Terminal::wait for one event: an entry whose
\* upgrade succeeds gets the event at the back of its queue and its waker
\* taken and called, and is kept; the others are removed.
Retain(subs, alive, pend, wk, event) ==
    IF subs = <<>> THEN [subscribers |-> <<>>, pending |-> pend, waker |-> wk]
    ELSE IF Head(subs) \in alive
      THEN Kept(Head(subs),
                Retain(Tail(subs), alive,
                       [pend EXCEPT ![Head(subs)] = Append(@, event)],
                       [wk EXCEPT ![Head(subs)] = FALSE], event))
      ELSE Retain(Tail(subs), alive, pend, wk, event)

\* A poll_next that takes the newest event.
PopBack(q) == [event |-> q[Len(q)], rest |-> SubSeq(q, 1, Len(q) - 1)]

\* pending.pop_front() on a queue that is not empty.
PopFront_(q) == [event |-> Head(q), rest |-> Tail(q)]

\* Terminal::events: a new queue, and a weak reference to it at the end of
\* the subscriber list.
TermEvents ==
    /\ t_made < MaxSubs
    /\ t_made' = t_made + 1
    /\ subscribers' = Append(subscribers, t_made + 1)
    /\ t_alive' = t_alive \cup {t_made + 1}
    /\ t_since' = [t_since EXCEPT ![t_made + 1] = t_taken]
    /\ t_op' = "events"
    /\ UNCHANGED <<pending, t_waker, yielded, t_taken, received_ctrl_c, termFrame>>

\* The TerminalEvents handle s is dropped, and its queue with it.
TermDropEvents(s) ==
    /\ s \in t_alive
    /\ t_alive' = t_alive \ {s}
    /\ pending' = [pending EXCEPT ![s] = <<>>]
    /\ t_waker' = [t_waker EXCEPT ![s] = FALSE]
    /\ t_op' = "drop"
    /\ UNCHANGED <<subscribers, yielded, t_since, t_taken, received_ctrl_c, t_made, termFrame>>

\* Terminal::wait takes the next event of the upstream stream; ctrl_c:
\* T::received_ctrl_c(event). The render loop stops calling wait after
\* Ctrl-C.
TermWait(ctrl_c) ==
    /\ ~received_ctrl_c
    /\ t_taken < MaxUpstream
    /\ t_taken' = t_taken + 1
    /\ received_ctrl_c' = ctrl_c
    /\ IF ctrl_c
         THEN UNCHANGED <<subscribers, pending, t_waker>>
         ELSE \E r \in {Retain(subscribers, t_alive, pending, t_waker, t_taken + 1)} :
                 /\ subscribers' = r.subscribers
                 /\ pending' = r.pending
                 /\ t_waker' = r.waker
    /\ t_op' = IF ctrl_c THEN "ctrl_c" ELSE "dispatch"
    /\ UNCHANGED <<t_alive, yielded, t_since, t_made, termFrame>>

\* TerminalEvents::poll_next of subscription s.
TermPollNext(s) ==
    /\ s \in t_alive
    /\ IF pending[s] # <<>>
         THEN \E r \in {PopFront_(pending[s])} :
                 /\ yielded' = [yielded EXCEPT ![s] = Append(@, r.event)]
                 /\ pending' = [pending EXCEPT ![s] = r.rest]
                 /\ UNCHANGED t_waker
         ELSE /\ t_waker' = [t_waker EXCEPT ![s] = TRUE]
              /\ UNCHANGED <<yielded, pending>>
    /\ t_op' = "poll_next"
    /\ UNCHANGED <<subscribers, t_alive, t_since, t_taken, received_ctrl_c, t_made, termFrame>>

NextTerm ==
    \/ TermEvents
    \/ \E s \in SubIds : TermDropEvents(s)
    \/ \E ctrl_c \in BOOLEAN : TermWait(ctrl_c)
    \/ \E s \in SubIds : TermPollNext(s)

SpecTerm == InitTerm /\ [][NextTerm]_vars

\* The events dispatched since subscription s was made, in arrival order.
Dispatched(s) ==
    [i \in 1..((IF received_ctrl_c THEN t_taken - 1 ELSE t_taken) - t_since[s]) |->
        t_since[s] + i]

\* ------------------------------------------------------------------------
\* C24: for every live subscription, the events its poll_next has yielded
\* followed by the events still in its pending queue are exactly the events
\* that Terminal::wait took since the subscription was made, the Ctrl-C
\* press excluded, each once and in arrival order, however many are still
\* waiting to be polled.
\* ------------------------------------------------------------------------
C24_EveryEventOnceInOrder ==
    \A s \in t_alive : yielded[s] \o pending[s] = Dispatched(s)

\* Two live subscriptions, the second made after the first event; the first
\* has polled two of its three events, the second none of its two.
C24_Witness ==
    /\ t_alive = SubIds
    /\ t_taken = 3 /\ ~received_ctrl_c
    /\ yielded[1] = <<1, 2>> /\ pending[1] = <<3>>
    /\ yielded[2] = <<>> /\ pending[2] = <<2, 3>>

\* ------------------------------------------------------------------------
\* C25: the dispatch of an event by Terminal::wait removes from the
\* subscriber list exactly the entries whose TerminalEvents handle has been
\* dropped, queues nothing for them, and gives every live subscriber the
\* event at the back of its queue.
\* ------------------------------------------------------------------------
C25_DeadSubscribersRemoved ==
    [][TermWait(FALSE) =>
          /\ subscribers' = SelectSeq(subscribers, LAMBDA s : s \in t_alive)
          /\ \A s \in SubIds \ t_alive : pending'[s] = <<>> /\ ~t_waker'[s]
          /\ \A s \in t_alive : pending'[s] = Append(pending[s], t_taken + 1)]_vars

\* The first subscription was dropped; the dispatch of the third event has
\* removed its entry and has reached the second subscription.
C25_Witness ==
    /\ t_op = "dispatch"
    /\ t_alive = {2}
    /\ subscribers = <<2>>
    /\ pending[1] = <<>>
    /\ pending[2] = <<2, 3>>
    /\ t_taken = 3

\* ========================================================================
\* The counter's render loop with a terminal whose draw call may fail
\* (render/tree.rs).
\* ========================================================================

\* Tree::render: the update, then terminal.draw(...).expect("Failed to draw
\* the terminal"), then Ok(()). draw_ok: the draw call returned Ok.
TreeRender(draw_ok) == IF draw_ok THEN "Ok" ELSE "panic"

\* self.render(terminal)? in Tree::render_loop: an Err is returned to the
\* caller, a panic unwinds, and after Ok the loop goes on.
TreeRenderLoop(r) ==
    CASE r = "Ok" -> "running"
      [] r = "Err" -> "Err"
      [] r = "panic" -> "panic"

InitDraw == InitCounter

\* A render pass whose draw call returns an io::Error.
CounterDrawFails ==
    /\ pc = "render"
    /\ loop_result = "running"
    /\ passes' = passes + 1
    /\ loop_result' = TreeRenderLoop(TreeRender(FALSE))
    /\ pc' = "exited"
    /\ UNCHANGED <<hook_pos, pass_ready, cell, woken, task, timer, guard, order,
                   term_queue, sub_queue, sub_waker, stale, tick, readers, wake_count,
                   result, last_op, prev_op, treeVars, hookVars, ctxVars, ownerVars,
                   storeVars, copyVars, termVars, memoVars, histVars, handlerVars, rdVars, pollAllVars, lifeVars, exitVars, futVars>>

NextDraw ==
    \/ NextCounter
    \/ CounterDrawFails

SpecDraw == InitDraw /\ [][NextDraw]_vars

\* ------------------------------------------------------------------------
\* C27: a render pass whose terminal draw call fails makes the render loop
\* return Err to its caller; it does not panic.
\* ------------------------------------------------------------------------
C27_DrawFailureIsErr ==
    [][CounterDrawFails => loop_result' = "Err"]_vars

\* ========================================================================
\* use_memo (hooks/use_memo.rs) over the updates of one instance.
\* ========================================================================

memoFrame == <<baseVars, storeVars, copyVars, termVars, drawVars, histVars, handlerVars, rdVars, pollAllVars, lifeVars, exitVars, futVars>>

\* hash_deps: a hash of the deps into HashWidth bits; different deps may
\* have the same hash, and a hash may be 0, the deps_hash of a new hook.
hash_deps(d) == (d * 5 + 3) % (2 ^ HashWidth)

\* A use_memo that looks at the hash only.
UseMemoHashOnly(hook, d, v) ==
    IF hook.deps_hash # hash_deps(d)
      THEN [hook |-> [memoized_value |-> <<v>>, deps_hash |-> hash_deps(d)],
            called |-> TRUE, ret |-> <<v>>]
      ELSE [hook |-> hook, called |-> FALSE, ret |-> hook.memoized_value]

\* Hooks::use_memo(f, deps) on the hook that use_hook returned; v is what f
\* returns if it is called.
UseMemo(hook, d, v) ==
    IF hook.deps_hash # hash_deps(d) \/ hook.memoized_value = NoValue
      THEN [hook |-> [memoized_value |-> <<v>>, deps_hash |-> hash_deps(d)],
            called |-> TRUE, ret |-> <<v>>]
      ELSE [hook |-> hook, called |-> FALSE, ret |-> hook.memoized_value]

InitMemo == InitTree

\* The unit value that the closure of use_effect returns.
Unit == 0

\* An update of the instance: its body calls use_memo(f, d), f returning v,
\* and use_effect(g, de), which is use_memo with the effect as closure.
MemoUpdate(d, v, de) ==
    /\ \E r \in {UseMemo(memo, d, v)} :
          /\ memo' = r.hook
          /\ m_called' = r.called
          /\ m_ret' = r.ret
    /\ \E r \in {UseMemo(effect, de, Unit)} :
          /\ effect' = r.hook
          /\ e_called' = r.called
    /\ m_first' = FALSE
    /\ m_deps' = d
    /\ e_deps' = de
    /\ UNCHANGED memoFrame

\* The instance is replaced by a new one of the same component.
MemoNewInstance ==
    /\ ~m_first
    /\ memo' = [memoized_value |-> NoValue, deps_hash |-> 0]
    /\ m_ret' = NoValue
    /\ m_called' = FALSE
    /\ m_first' = TRUE
    /\ m_deps' = 0
    /\ effect' = [memoized_value |-> NoValue, deps_hash |-> 0]
    /\ e_called' = FALSE
    /\ e_deps' = 0
    /\ UNCHANGED memoFrame

NextMemo ==
    \/ \E d \in Deps, v \in 0..MaxValue, de \in Deps : MemoUpdate(d, v, de)
    \/ MemoNewInstance

SpecMemo == InitMemo /\ [][NextMemo]_vars

\* ------------------------------------------------------------------------
\* C28: use_memo(f, deps) calls f exactly on the instance's first update
\* and on the later updates whose deps hash differs from the hash stored by
\* the previous computation; when f is called its value is returned and
\* stored with the hash, otherwise the stored value is returned and the
\* hook is unchanged; and after the first update f is called only when the
\* deps differ from those of the previous update.
\* ------------------------------------------------------------------------
C28_MemoRecomputesOnChange ==
    [][\A d \in Deps, v \in 0..MaxValue, de \in Deps :
          MemoUpdate(d, v, de) =>
             /\ m_called' <=> (m_first \/ hash_deps(d) # memo.deps_hash)
             /\ m_called' => (m_ret' = <<v>> /\ memo'.memoized_value = <<v>>
                              /\ memo'.deps_hash = hash_deps(d))
             /\ ~m_called' => (m_ret' = memo.memoized_value /\ m_ret' # NoValue
                               /\ memo' = memo)
             /\ (m_called' /\ ~m_first) => d # m_deps
             /\ e_called' <=> (m_first \/ hash_deps(de) # effect.deps_hash)
             /\ (e_called' /\ ~m_first) => de # e_deps]_vars

\* A later update with the deps of the previous one has returned the stored
\* value without calling f (the hash of these deps is 0), and has run the
\* effect, whose deps have changed.
C28_Witness ==
    /\ ~m_first
    /\ ~m_called
    /\ m_deps = 1
    /\ hash_deps(m_deps) = 0
    /\ m_ret = <<1>>
    /\ memo.memoized_value = <<1>>
    /\ e_called
    /\ e_deps = 2

\* ========================================================================
\* The router's history (components/router/history.rs) and the Navigate
\* operations on it (hooks/use_router.rs).
\* ========================================================================

histFrame == <<baseVars, storeVars, copyVars, termVars, drawVars, memoVars, handlerVars, rdVars, pollAllVars, lifeVars, exitVars, futVars>>

\* The entry at index i, counted from 0 as VecDeque does.
At(history, i) == history[i + 1]

\* RouterHistory::current_context
CurrentContext(h) == At(h.history, h.current)

\* RouterHistory::push. pop_front when the history is full, current += 1,
\* insert at current (VecDeque::insert panics when the index is beyond the
\* length; the fields changed before it stay changed), truncate.
HistoryPush(h, ctx) ==
    LET popped == IF Len(h.history) >= h.max_length /\ h.history # <<>>
                    THEN Tail(h.history) ELSE h.history
        cur == h.current + 1
    IN  IF cur > Len(popped)
          THEN [h |-> [h EXCEPT !.history = popped, !.current = cur], panic |-> TRUE]
          ELSE [h |-> [h EXCEPT !.history = SubSeq(popped, 1, cur) \o <<ctx>>,
                                !.current = cur],
                panic |-> FALSE]

\* RouterHistory::replace
HistoryReplace(h, ctx) ==
    IF h.current >= Len(h.history)
      THEN [h |-> h, panic |-> TRUE]
      ELSE [h |-> [h EXCEPT !.history = SubSeq(h.history, 1, h.current) \o <<ctx>>],
            panic |-> FALSE]

\* RouterHistory::back
HistoryBack(h) ==
    IF h.current > 0
      THEN [h |-> [h EXCEPT !.current = @ - 1], ret |-> TRUE]
      ELSE [h |-> h, ret |-> FALSE]

\* RouterHistory::forward (history.len() - 1 needs a history that is not
\* empty, which every history has that no operation panicked on).
HistoryForward(h) ==
    IF h.current < Len(h.history) - 1
      THEN [h |-> [h EXCEPT !.current = @ + 1], ret |-> TRUE]
      ELSE [h |-> h, ret |-> FALSE]

\* A go that moves whatever the target is.
HistoryGoUnchecked(h, n) ==
    [h |-> [h EXCEPT !.current = IF @ + n >= 0 THEN @ + n ELSE 0], ret |-> TRUE]

\* RouterHistory::go
HistoryGo(h, n) ==
    IF h.current + n >= 0 /\ h.current + n < Len(h.history)
      THEN [h |-> [h EXCEPT !.current = @ + n], ret |-> TRUE]
      ELSE [h |-> h, ret |-> FALSE]

InitHistory == InitTree

\* The first update of a RouterProvider with history_length len: the
\* history holds the index path.
HistProvide(len) ==
    /\ h_op.op = "none"
    /\ hist' = [current |-> 0, history |-> <<IndexPath>>, max_length |-> len]
    /\ h_op' = [op |-> "provide", arg |-> len, ret |-> FALSE]
    /\ UNCHANGED <<h_panic, histFrame>>

HistReady == h_op.op # "none" /\ ~h_panic

\* Navigate::push(path): the current context with the new path is pushed.
HistPush(path) ==
    /\ HistReady
    /\ \E r \in {HistoryPush(hist, path)} :
          /\ hist' = r.h
          /\ h_panic' = r.panic
    /\ h_op' = [op |-> "push", arg |-> path, ret |-> FALSE]
    /\ UNCHANGED histFrame

\* Navigate::replace(path)
HistReplace(path) ==
    /\ HistReady
    /\ \E r \in {HistoryReplace(hist, path)} :
          /\ hist' = r.h
          /\ h_panic' = r.panic
    /\ h_op' = [op |-> "replace", arg |-> path, ret |-> FALSE]
    /\ UNCHANGED histFrame

\* Navigate::back
HistBack ==
    /\ HistReady
    /\ \E r \in {HistoryBack(hist)} :
          /\ hist' = r.h
          /\ h_op' = [op |-> "back", arg |-> 0, ret |-> r.ret]
    /\ UNCHANGED <<h_panic, histFrame>>

\* Navigate::forward
HistForward ==
    /\ HistReady
    /\ \E r \in {HistoryForward(hist)} :
          /\ hist' = r.h
          /\ h_op' = [op |-> "forward", arg |-> 0, ret |-> r.ret]
    /\ UNCHANGED <<h_panic, histFrame>>

\* Navigate::go(delta)
HistGo(delta) ==
    /\ HistReady
    /\ \E r \in {HistoryGo(hist, delta)} :
          /\ hist' = r.h
          /\ h_op' = [op |-> "go", arg |-> delta, ret |-> r.ret]
    /\ UNCHANGED <<h_panic, histFrame>>

NextHistory ==
    \/ \E len \in 1..MaxHistory : HistProvide(len)
    \/ \E path \in Paths : HistPush(path)
    \/ \E path \in Paths : HistReplace(path)
    \/ HistBack
    \/ HistForward
    \/ \E delta \in (0 - MaxHistory)..MaxHistory : HistGo(delta)

SpecHistory == InitHistory /\ [][NextHistory]_vars

\* ------------------------------------------------------------------------
\* C29: Navigate::push puts the new context directly after the entry that
\* was current, makes it the current and last entry, keeps the entries up
\* to the one that was current in their order (the oldest may go when the
\* history is full), and a back() right after it returns to the context
\* that was current before the push; it does so also when the history has
\* reached its maximum length.
\* ------------------------------------------------------------------------
C29_PushThenBack ==
    [][\A path \in Paths :
          HistPush(path) =>
             /\ ~h_panic'
             /\ Len(hist'.history) >= 2
             /\ hist'.current = Len(hist'.history) - 1
             /\ CurrentContext(hist') = path
             /\ At(hist'.history, hist'.current - 1) = CurrentContext(hist)
             /\ HistoryBack(hist').ret
             /\ CurrentContext(HistoryBack(hist').h) = CurrentContext(hist)
             /\ \E k \in 0..1 :
                   SubSeq(hist'.history, 1, Len(hist'.history) - 1)
                      = SubSeq(hist.history, 1 + k, hist.current + 1)]_vars

\* ------------------------------------------------------------------------
\* C30: in every history that the operations produce, back() changes the
\* history and returns as go(-1) does and forward() as go(1) does, and when
\* the target index lies outside the history they return false and change
\* nothing.
\* ------------------------------------------------------------------------
C30_BackForwardAreGo ==
    HistReady =>
        /\ HistoryBack(hist) = HistoryGo(hist, 0 - 1)
        /\ HistoryForward(hist) = HistoryGo(hist, 1)
        /\ hist.current = 0 => HistoryBack(hist) = [h |-> hist, ret |-> FALSE]
        /\ hist.current + 1 >= Len(hist.history) =>
              HistoryForward(hist) = [h |-> hist, ret |-> FALSE]

\* A forward at the last of three entries has returned false and has left
\* the history as it was.
C30_Witness ==
    /\ HistReady
    /\ h_op.op = "forward"
    /\ ~h_op.ret
    /\ Len(hist.history) = 3
    /\ hist.current = 2

\* ========================================================================
\* Handler (handler.rs)
\* ========================================================================

handlerFrame == <<baseVars, storeVars, copyVars, termVars, drawVars, memoVars, histVars, rdVars, pollAllVars, lifeVars, exitVars, futVars>>

\* From<F> for Handler: Self(false, Box::new(f))
HandlerFrom(f) == [set |-> FALSE, f |-> f]

\* Handler::is_default: !self.0
is_default(h) == ~h.set

\* Handler::take: core::mem::take(self), the stored handler is returned
\* and Handler::default() is left.
HandlerTake(h) == [ret |-> h, left |-> HandlerDefault]

InitHandler == InitTree

\* A props field is assigned Handler::default().
HdDefault(s) ==
    /\ handlers' = [handlers EXCEPT ![s] = HandlerDefault]
    /\ hd_op' = [op |-> "default", slot |-> s, ret |-> FALSE, ran |-> Noop]
    /\ UNCHANGED <<hd_taken, handlerFrame>>

\* A props field is assigned Handler::from(closure).
HdFrom(s, f) ==
    /\ handlers' = [handlers EXCEPT ![s] = HandlerFrom(f)]
    /\ hd_op' = [op |-> "from", slot |-> s, ret |-> FALSE, ran |-> Noop]
    /\ UNCHANGED <<hd_taken, handlerFrame>>

\* props.field.is_default()
HdIsDefault(s) ==
    /\ hd_op' = [op |-> "is_default", slot |-> s, ret |-> is_default(handlers[s]),
                 ran |-> Noop]
    /\ UNCHANGED <<handlers, hd_taken, handlerFrame>>

\* props.field.take()
HdTake(s) ==
    /\ \E r \in {HandlerTake(handlers[s])} :
          /\ hd_taken' = r.ret
          /\ handlers' = [handlers EXCEPT ![s] = r.left]
    /\ hd_op' = [op |-> "take", slot |-> s, ret |-> FALSE, ran |-> Noop]
    /\ UNCHANGED handlerFrame

\* (props.field)(value): DerefMut to the boxed closure, which runs.
HdCall(s) ==
    /\ hd_op' = [op |-> "call", slot |-> s, ret |-> FALSE, ran |-> handlers[s].f]
    /\ UNCHANGED <<handlers, hd_taken, handlerFrame>>

NextHandler ==
    \/ \E s \in Slots : HdDefault(s)
    \/ \E s \in Slots, f \in Closures : HdFrom(s, f)
    \/ \E s \in Slots : HdIsDefault(s)
    \/ \E s \in Slots : HdTake(s)
    \/ \E s \in Slots : HdCall(s)

SpecHandler == InitHandler /\ [][NextHandler]_vars

\* ------------------------------------------------------------------------
\* C31: is_default() is true for Handler::default() and false for a
\* Handler built from a closure; take() returns the handler that was
\* stored and leaves a handler for which is_default() is true.
\* ------------------------------------------------------------------------
C31_IsDefaultTellsApart ==
    [][\A s \in Slots :
          /\ HdDefault(s) => is_default(handlers'[s])
          /\ (\E f \in Closures : HdFrom(s, f)) => ~is_default(handlers'[s])
          /\ HdTake(s) => (hd_taken' = handlers[s] /\ is_default(handlers'[s]))]_vars

ReadDropped(c) == c = "State" /\ owner_dropped

\* A write guard on the cell is outstanding.
ReadWriteHeld(c) == IF c = "State" THEN guard.held ELSE sguard.held

\* What the call hands to its caller when try_read ends with r: read (and
\* get, built on it) unwrap the option with expect.
ReadResult(api, r) ==
    IF r = "None" /\ api # "try_read" THEN "panic"
    ELSE IF r = "Some" /\ api = "get" THEN "value"
    ELSE r

readFrame == <<storeVars, copyVars, termVars, drawVars, memoVars, histVars, handlerVars, pollAllVars, lifeVars, exitVars, futVars>>

InitReaders == InitTree

ReadAtRest == rd_pc \in {"idle", "returned"}

\* handle.try_read() / read() / get() is called.
ReadCall(c, api) ==
    /\ ReadAtRest
    /\ c = "State" => readers < MaxReaders
    /\ rd_pc' = "try_read"
    /\ rd_cell' = c
    /\ rd_api' = api
    /\ rd_ret' = "none"
    /\ UNCHANGED <<baseVars, readFrame>>

\* match self.inner.try_read(): Ok returns the reference (get copies the
\* value and drops it), Dropped returns None, AlreadyBorrowedMut goes on
\* to inner.try_write().
ReadInnerTryRead ==
    /\ rd_pc = "try_read"
    /\ IF ReadDropped(rd_cell)
         THEN /\ rd_pc' = "returned"
              /\ rd_ret' = ReadResult(rd_api, "None")
              /\ UNCHANGED readers
         ELSE IF ReadWriteHeld(rd_cell)
                THEN /\ rd_pc' = "try_write"
                     /\ UNCHANGED <<rd_ret, readers>>
                ELSE /\ rd_pc' = "returned"
                     /\ rd_ret' = ReadResult(rd_api, "Some")
                     /\ readers' = IF rd_cell = "State" /\ rd_api # "get"
                                     THEN readers + 1 ELSE readers
    /\ UNCHANGED <<rd_cell, rd_api, cell, guard, wake_count, result, last_op, prev_op,
                   treeVars, hookVars, loopVars, counterVars, ctxVars, ownerVars,
                   readFrame>>

\* match self.inner.try_write(): Dropped returns None, everything else
\* (the error of a borrowed cell, or a guard that is dropped at once)
\* continues the loop.
ReadInnerTryWrite ==
    /\ rd_pc = "try_write"
    /\ IF ReadDropped(rd_cell)
         THEN /\ rd_pc' = "returned"
              /\ rd_ret' = ReadResult(rd_api, "None")
         ELSE /\ rd_pc' = "try_read"
              /\ UNCHANGED rd_ret
    /\ UNCHANGED <<rd_cell, rd_api, baseVars, readFrame>>

\* What the same thread of control does between its read calls: it takes
\* and drops write guards, drops read references and drops the owner.
ReadThreadActs ==
    /\ ReadAtRest
    /\ \/ CellTryWrite
       \/ CellDropGuard
       \/ CellDropRef
       \/ OwnerDrop
       \/ StoreWrite("try_write")
       \/ StoreDropGuard

NextReaders ==
    \/ \E c \in ReadCells, api \in ReadApis : ReadCall(c, api)
    \/ ReadInnerTryRead
    \/ ReadInnerTryWrite
    \/ ReadThreadActs

FairSpecReaders ==
    /\ InitReaders
    /\ [][NextReaders]_vars
    /\ WF_vars(ReadInnerTryRead)
    /\ WF_vars(ReadInnerTryWrite)

\* ------------------------------------------------------------------------
\* C33: a call of try_read (read, get) on a State or StoreState always
\* returns, with a value, None or a fault, also when the calling thread of
\* control holds a write guard on the same cell.
\* ------------------------------------------------------------------------
C33_ReadReturns ==
    (rd_pc = "try_read") ~> (rd_pc = "returned")

\* ========================================================================
\* Child lists that hold a key several times
\* ========================================================================

\* How many elements of list have key k.
CountKey(list, k) == Cardinality({i \in 1..Len(list) : list[i].key = k})

\* One update_children call of parent p with list: ar, dc, nid are the
\* arena, the drop counts and the next identity before the render, ar2 and
\* dc2 the arena and the drop counts after it.
C34_At(ar, ar2, dc, dc2, nid, p, list) ==
    /\ InOrder(ar2, p, list)
    /\ \A i, j \in 1..Len(list) : i # j => Children(ar2, p)[i] # Children(ar2, p)[j]
    /\ \A j \in 1..Len(list) :
          \E prevs \in {PrevWithKey(ar, p, list[j].key)}, n \in {OccIdx(list, j)} :
             /\ (n <= Len(prevs) /\ ar[prevs[n]].type = list[j].type)
                   => /\ Children(ar2, p)[j] = prevs[n]
                      /\ ar2[prevs[n]].hooks = ar[prevs[n]].hooks
             /\ (n > Len(prevs) \/ ar[prevs[n]].type # list[j].type)
                   => /\ Children(ar2, p)[j] >= nid
                      /\ ar2[Children(ar2, p)[j]].hooks = HookProgram(list[j].type)
    /\ \A o \in Range(Children(ar, p)) :
          \E prevs \in {PrevWithKey(ar, p, ar[o].key)} :
             \A m \in 1..Len(prevs) :
                (prevs[m] = o /\ m > CountKey(list, ar[o].key))
                   => /\ dc[o] = 0 /\ dc2[o] = 1
                      /\ ~ar2[o].live
                      /\ o \notin Range(Children(ar2, p))

\* ------------------------------------------------------------------------
\* C34: when a child list holds a key several times, update_children
\* matches by position: the i-th occurrence of the key reuses the i-th
\* previous instance with that key when the types agree, occurrences
\* beyond the previous instances get new instances, previous instances
\* beyond the occurrences are dropped, and afterwards the collection holds
\* one instance per list element in list order.
\* ------------------------------------------------------------------------
C34_DuplicateKeysPositional ==
    [][given' # NoRender =>
         \A c \in SecondCalls(arena, arena', given') :
             C34_At(arena, arena', dropCount, dropCount', nextId, c[1], c[2])]_vars

\* A render with the same key twice has just reused the two previous
\* instances of that key, each at its own position.
C34_Witness ==
    /\ given # NoRender
    /\ Len(given) = 2
    /\ given[1].key = given[2].key
    /\ \E e1, e2 \in Range(log) :
          /\ e1.op = "reuse" /\ e2.op = "reuse"
          /\ e1.id = Children(arena, RootId)[1]
          /\ e2.id = Children(arena, RootId)[2]

\* ========================================================================
\* One poll of an instance's hook list, with write guards that tasks and
\* handlers may hold on the cells (Hook for Vec<Box<dyn AnyHook>>).
\* ========================================================================

pollAllFrame == <<baseVars, storeVars, copyVars, termVars, drawVars, memoVars, histVars, handlerVars, rdVars, lifeVars, exitVars, futVars>>

\* Hook for Vec<Box<dyn AnyHook>>::poll_change over use_state hooks: every
\* hook is polled, a Ready is remembered.
RECURSIVE PollAllLoop(_, _, _, _)
PollAllLoop(hooks, held, i, is_ready) ==
    IF i > NumPolled THEN [hooks |-> hooks, ready |-> is_ready]
    ELSE \* one iteration: poll_change of hook i
         PollAllLoop([hooks EXCEPT ![i] = StatePollChange(hooks[i], held[i].held).hook],
                     held, i + 1,
                     IF StatePollChange(hooks[i], held[i].held).ready
                       THEN TRUE ELSE is_ready)

InitPollAll == InitTree

\* state.write() / try_write() on cell i
PollAllTryWrite(i) ==
    /\ \E r \in {TryWrite(p_guards[i], 0)} :
          /\ r.some
          /\ p_guards' = [p_guards EXCEPT ![i] = r.guard]
    /\ UNCHANGED <<p_hooks, p_result, p_since, pollAllFrame>>

\* *guard = v on the guard of cell i
PollAllDerefMut(i, v) ==
    /\ p_guards[i].held
    /\ \E r \in {DerefMut(p_hooks[i], p_guards[i], v)} :
          /\ p_hooks' = [p_hooks EXCEPT ![i] = r.cell]
          /\ p_guards' = [p_guards EXCEPT ![i] = r.guard]
    /\ UNCHANGED <<p_result, p_since, pollAllFrame>>

\* The guard of cell i goes out of scope.
PollAllDropGuard(i) ==
    /\ p_guards[i].held
    /\ p_guards[i].is_deref_mut => p_since < MaxSince
    /\ p_hooks' = [p_hooks EXCEPT ![i] = DropStateMutRef(p_hooks[i], p_guards[i]).cell]
    /\ p_guards' = [p_guards EXCEPT ![i] = NoGuard]
    /\ p_since' = IF p_guards[i].is_deref_mut THEN p_since + 1 ELSE p_since
    /\ UNCHANGED <<p_result, pollAllFrame>>

\* The scheduler polls the hook list.
PollAll ==
    /\ \E r \in {PollAllLoop(p_hooks, p_guards, 1, FALSE)} :
          /\ p_hooks' = r.hooks
          /\ p_result' = IF r.ready THEN "Ready" ELSE "Pending"
    /\ p_since' = 0
    /\ UNCHANGED <<p_guards, pollAllFrame>>

NextPollAll ==
    \/ \E i \in Polled : PollAllTryWrite(i)
    \/ \E i \in Polled, v \in 0..MaxValue : PollAllDerefMut(i, v)
    \/ \E i \in Polled : PollAllDropGuard(i)
    \/ PollAll

SpecPollAll == InitPollAll /\ [][NextPollAll]_vars

C36_HistoryInvariant ==
    h_op.op # "none" =>
        /\ ~h_panic
        /\ hist.current >= 0
        /\ hist.current < Len(hist.history)
        /\ Len(hist.history) <= hist.max_length

\* ------------------------------------------------------------------------
\* C37: within one update every use_hook call returns a slot beyond the
\* slots returned before it, so no two calls return the same slot, and the
\* running index is shared between a handle made by with_context_stack and
\* the handle it was made from: when the derived handle is given up, the
\* original one continues at the index the derived one had reached.
\* ------------------------------------------------------------------------
C37_SharedRunningIndex ==
    [][/\ (IsUseHookCall /\ ret' # None) => ret' > ret
       /\ DropHandle => Last(handles') = Last(handles)]_vars

\* ========================================================================
\* The calls the hooks of an instance receive: InstantiatedComponent::update
\* (pre_component_update, the component's update, post_component_update)
\* and the polls of Tree::render_loop's wait.
\* ========================================================================

lifeFrame == <<baseVars, storeVars, copyVars, termVars, drawVars, memoVars, histVars, handlerVars, rdVars, pollAllVars, exitVars, futVars>>

\* UseStoreImpl { state, key: None } and the other hooks as use_hook builds
\* them.
NewLifeHook(t) == [type |-> t, key |-> None, pre |-> 0, post |-> 0, polled |-> FALSE]

\* Hook for Vec<Box<dyn AnyHook>>::pre_component_update
PreComponentUpdate(hooks) ==
    [i \in 1..Len(hooks) |-> [hooks[i] EXCEPT !.pre = @ + 1]]

\* A post_component_update that reaches only the hooks that got a
\* pre_component_update in this update.
PostOfEarlierHooks(hooks, key) ==
    [i \in 1..Len(hooks) |->
        IF hooks[i].pre > hooks[i].post
          THEN [hooks[i] EXCEPT !.post = @ + 1,
                                !.key = IF hooks[i].type = "store" /\ @ = None THEN key ELSE @]
          ELSE hooks[i]]

\* Hook for Vec<Box<dyn AnyHook>>::post_component_update; UseStoreImpl's
\* sets its key when it has none.
PostComponentUpdate(hooks, key) ==
    [i \in 1..Len(hooks) |->
        [hooks[i] EXCEPT !.post = @ + 1,
                         !.key = IF hooks[i].type = "store" /\ @ = None THEN key ELSE @]]

\* Hook for Vec<Box<dyn AnyHook>>::poll_change: every hook is polled;
\* UseStoreImpl::poll_change unwraps its key.
LifePollChange(hooks) ==
    [hooks |-> [i \in 1..Len(hooks) |-> [hooks[i] EXCEPT !.polled = TRUE]],
     panic |-> \E i \in 1..Len(hooks) : hooks[i].type = "store" /\ hooks[i].key = None]

InitLife == InitTree

\* InstantiatedComponent::new(key, ...)
LifeNew(key) ==
    /\ lc_pc = "new"
    /\ lc_key' = key
    /\ lc_pc' = "idle"
    /\ UNCHANGED <<lc_hooks, lc_first, lc_updates, lc_polls, lc_panic, lifeFrame>>

\* update: self.hooks.pre_component_update(&mut updater)
LifePre ==
    /\ lc_pc = "idle"
    /\ ~lc_panic
    /\ lc_updates < MaxUpdates
    /\ lc_hooks' = PreComponentUpdate(lc_hooks)
    /\ lc_pc' = "component"
    /\ UNCHANGED <<lc_key, lc_first, lc_updates, lc_polls, lc_panic, lifeFrame>>

\* The component's update calls use_hook on its first update: the hook is
\* built and pushed.
LifeUseHook(t) ==
    /\ lc_pc = "component"
    /\ lc_first
    /\ Len(lc_hooks) < MaxLifeHooks
    /\ lc_hooks' = Append(lc_hooks, NewLifeHook(t))
    /\ UNCHANGED <<lc_key, lc_pc, lc_first, lc_updates, lc_polls, lc_panic, lifeFrame>>

\* The component's update has returned: post_component_update on the
\* hooks, first_update = false.
LifePost ==
    /\ lc_pc = "component"
    /\ lc_hooks' = PostComponentUpdate(lc_hooks, lc_key)
    /\ lc_first' = FALSE
    /\ lc_updates' = lc_updates + 1
    /\ lc_pc' = "idle"
    /\ UNCHANGED <<lc_key, lc_polls, lc_panic, lifeFrame>>

\* render_loop: after the render, root_component.wait() polls the tree.
LifePoll ==
    /\ lc_pc = "idle"
    /\ lc_updates > 0
    /\ ~lc_panic
    /\ lc_polls < MaxPolls
    /\ \E r \in {LifePollChange(lc_hooks)} :
          /\ lc_hooks' = r.hooks
          /\ lc_panic' = r.panic
    /\ lc_polls' = lc_polls + 1
    /\ UNCHANGED <<lc_key, lc_pc, lc_first, lc_updates, lifeFrame>>

\* The next pass of the loop follows the wait.
LifeNextPass ==
    /\ lc_pc = "idle"
    /\ lc_polls > 0
    /\ ~lc_panic
    /\ lc_polls' = 0
    /\ UNCHANGED <<lc_key, lc_hooks, lc_pc, lc_first, lc_updates, lc_panic, lifeFrame>>

NextLife ==
    \/ \E key \in Keys : LifeNew(key)
    \/ LifePre
    \/ \E t \in LifeHookTypes : LifeUseHook(t)
    \/ LifePost
    \/ LifePoll
    \/ LifeNextPass

SpecLife == InitLife /\ [][NextLife]_vars

\* ------------------------------------------------------------------------
\* C38: in every update pre_component_update reaches the hooks that
\* existed before the update, then the component's update runs, then
\* post_component_update reaches all hooks, those registered in this
\* update included; and no hook is polled before it has received
\* post_component_update, so a use_store hook has its key when polled and
\* the poll does not panic.
\* ------------------------------------------------------------------------
C38_UpdateOrder ==
    /\ ~lc_panic
    /\ \A i \in 1..Len(lc_hooks) :
          /\ lc_pc = "idle" =>
                (lc_hooks[i].post = lc_updates /\ lc_hooks[i].pre = lc_updates - 1)
          /\ lc_pc = "component" =>
                /\ lc_hooks[i].post = lc_updates
                /\ lc_hooks[i].pre = (IF lc_first THEN 0 ELSE lc_updates)
          /\ lc_hooks[i].polled =>
                /\ lc_hooks[i].post >= 1
                /\ lc_hooks[i].type = "store" => lc_hooks[i].key = lc_key

\* A use_store hook registered in the first update has been polled after a
\* second update.
C38_Witness ==
    /\ lc_updates = 2
    /\ lc_pc = "idle"
    /\ \E i \in 1..Len(lc_hooks) :
          /\ lc_hooks[i].type = "store"
          /\ lc_hooks[i].polled
          /\ lc_hooks[i].pre = 1
          /\ lc_hooks[i].post = 2

\* ========================================================================
\* Tree::render_loop and SystemContext::exit
\* ========================================================================

exitFrame == <<baseVars, storeVars, copyVars, termVars, drawVars, memoVars, histVars, handlerVars, rdVars, pollAllVars, lifeVars, futVars>>

\* A loop that goes on to the select whatever should_exit says.
AfterRenderIgnoresExit(exit, ctrl_c) == IF ctrl_c THEN "break" ELSE "select"

\* render_loop after self.render(terminal)?:
\* if self.system_context.should_exit() || terminal.received_ctrl_c() { break; }
AfterRender(exit, ctrl_c) == IF exit \/ ctrl_c THEN "break" ELSE "select"

InitExit == InitTree

\* Tree::render, first half: root_component.update. calls_exit: a
\* component calls SystemContext::exit() in its update; mutate: a component
\* writes a state in its update.
ExitUpdate(calls_exit, mutate) ==
    /\ x_pc = "render"
    /\ x_passes < MaxPasses
    /\ x_passes' = x_passes + 1
    /\ should_exit' = (should_exit \/ calls_exit)
    /\ x_exit_at' = IF calls_exit /\ x_exit_at = 0 THEN x_passes + 1 ELSE x_exit_at
    /\ x_changed' = (x_changed \/ mutate)
    /\ x_pc' = "draw"
    /\ UNCHANGED <<x_ctrl_c, x_draws, x_awaits, x_result, x_queue, exitFrame>>

\* Tree::render, second half: terminal.draw(...) returns Ok; then the test
\* of render_loop, which ends the loop with Ok(()) or goes on to await the
\* select.
ExitDraw ==
    /\ x_pc = "draw"
    /\ x_draws' = x_draws + 1
    /\ IF AfterRender(should_exit, x_ctrl_c) = "break"
         THEN x_pc' = "done" /\ x_result' = "Ok" /\ UNCHANGED x_awaits
         ELSE x_pc' = "select" /\ x_awaits' = x_awaits + 1 /\ UNCHANGED x_result
    /\ UNCHANGED <<should_exit, x_ctrl_c, x_passes, x_exit_at, x_queue, x_changed,
                   exitFrame>>

\* select(root_component.wait(), terminal.wait()) is polled: a change of
\* the tree ends it and the next pass begins.
ExitSelectRoot ==
    /\ x_pc = "select"
    /\ x_changed
    /\ x_changed' = FALSE
    /\ x_pc' = "render"
    /\ UNCHANGED <<should_exit, x_ctrl_c, x_passes, x_draws, x_awaits, x_result,
                   x_exit_at, x_queue, exitFrame>>

\* select is polled with no change in the tree: Terminal::wait reads the
\* events. Up to the first ctrl-c they go to the subscribers, whose handler
\* may write a state (mutate); ctrl-c sets received_ctrl_c, the select ends
\* and the loop breaks with Ok(()).
ExitSelectTerminal(mutate) ==
    /\ x_pc = "select"
    /\ ~x_changed
    /\ x_queue # <<>>
    /\ \E c \in {FirstCtrlC(x_queue)} :
          /\ x_queue' = IF c = 0 THEN <<>> ELSE SubSeq(x_queue, c + 1, Len(x_queue))
          /\ x_ctrl_c' = (c # 0)
          /\ x_changed' = (mutate /\ c # 1)
          /\ IF c # 0
               THEN x_pc' = "done" /\ x_result' = "Ok"
               ELSE UNCHANGED <<x_pc, x_result>>
    /\ UNCHANGED <<should_exit, x_passes, x_draws, x_awaits, x_exit_at, exitFrame>>

\* The user presses a key or ctrl-c.
ExitEventArrives(kind) ==
    /\ x_pc # "done"
    /\ Len(x_queue) < MaxQueue
    /\ x_queue' = Append(x_queue, kind)
    /\ UNCHANGED <<x_pc, should_exit, x_ctrl_c, x_passes, x_draws, x_awaits, x_result,
                   x_exit_at, x_changed, exitFrame>>

NextExit ==
    \/ \E calls_exit, mutate \in BOOLEAN : ExitUpdate(calls_exit, mutate)
    \/ ExitDraw
    \/ ExitSelectRoot
    \/ \E mutate \in BOOLEAN : ExitSelectTerminal(mutate)
    \/ \E kind \in EventKinds : ExitEventArrives(kind)

SpecExit == InitExit /\ [][NextExit]_vars

\* ------------------------------------------------------------------------
\* C39: when SystemContext::exit() is called during a render pass, the
\* loop completes the draw of that pass and then ends with Ok, without
\* awaiting and without starting another pass.
\* ------------------------------------------------------------------------
C39_ExitEndsAfterDraw ==
    [][x_exit_at # 0 =>
          /\ x_passes' = x_exit_at
          /\ x_awaits' = x_awaits
          /\ x_pc \in {"draw", "done"}
          /\ x_pc' \in {"draw", "done"}
          /\ ExitDraw => (x_draws' = x_exit_at /\ x_pc' = "done" /\ x_result' = "Ok")
          /\ x_pc = "done" => (x_draws = x_exit_at /\ x_result = "Ok")]_vars

\* The loop has ended with Ok after exit() was called in its second pass,
\* with a state written in that pass and an event unread.
C39_Witness ==
    /\ x_pc = "done"
    /\ x_exit_at = 2
    /\ x_draws = 2
    /\ x_awaits = 1
    /\ x_changed
    /\ x_queue # <<>>
    /\ ~x_ctrl_c
    /\ x_result = "Ok"

\* ========================================================================
\* use_future (hooks/use_future.rs)
\* ========================================================================

futFrame == <<baseVars, storeVars, copyVars, termVars, drawVars, memoVars, histVars, handlerVars, rdVars, pollAllVars, lifeVars, exitVars>>

\* A use_future that stores the future of every update.
UseFutureReplaces(hook, is_first, f) ==
    [hook |-> [exists |-> TRUE, f |-> f],
     dropped |-> IF hook.f # None THEN {hook.f} ELSE {}]

\* UseFuture::use_future(f): use_hook(move || UseFutureImpl::new(f)). The
\* closure runs on the first update only; on later updates it is dropped
\* with the future it holds.
UseFuture(hook, is_first, f) ==
    IF is_first
      THEN [hook |-> [exists |-> TRUE, f |-> f], dropped |-> {}]
      ELSE [hook |-> hook, dropped |-> {f}]

\* UseFutureImpl::poll_change; ready: the stored future's poll returns
\* Ready. polled: the future that was polled, if any.
UseFuturePollChange(hook, ready) ==
    [hook |-> IF hook.f # None /\ ready THEN [hook EXCEPT !.f = None] ELSE hook,
     polled |-> hook.f,
     done |-> IF hook.f # None /\ ready THEN {hook.f} ELSE {},
     ret |-> "Pending"]

InitFut == InitTree

\* An update of the instance: the component calls use_future once per
\* hook with the future of this update.
FutUpdate ==
    /\ fu_updates < MaxUpdates
    /\ fu_hook' = [h \in FutHooks |-> UseFuture(fu_hook[h], fu_first, fu_updates + 1).hook]
    /\ fu_dropped' = [h \in FutHooks |->
                        fu_dropped[h] \cup UseFuture(fu_hook[h], fu_first, fu_updates + 1).dropped]
    /\ fu_first' = FALSE
    /\ fu_updates' = fu_updates + 1
    /\ UNCHANGED <<fu_sched, fu_polls, fu_done, fu_ret, futFrame>>

\* A scheduler poll: poll_change of every hook of the instance; ready: the
\* hooks whose future, if polled, returns Ready.
FutPoll(ready) ==
    /\ ~fu_first
    /\ fu_sched < MaxSched
    /\ fu_sched' = fu_sched + 1
    /\ fu_hook' = [h \in FutHooks |-> UseFuturePollChange(fu_hook[h], h \in ready).hook]
    /\ fu_polls' = [h \in FutHooks |-> [n \in Futures |->
                      IF n = UseFuturePollChange(fu_hook[h], h \in ready).polled
                        THEN fu_polls[h][n] + 1 ELSE fu_polls[h][n]]]
    /\ fu_done' = [h \in FutHooks |->
                     fu_done[h] \cup UseFuturePollChange(fu_hook[h], h \in ready).done]
    /\ fu_ret' = [h \in FutHooks |-> UseFuturePollChange(fu_hook[h], h \in ready).ret]
    /\ UNCHANGED <<fu_first, fu_updates, fu_dropped, futFrame>>

NextFut ==
    \/ FutUpdate
    \/ \E ready \in SUBSET FutHooks : FutPoll(ready)

SpecFut == InitFut /\ [][NextFut]_vars

\* ------------------------------------------------------------------------
\* C40: the future passed to use_future in the first update is the only
\* one ever polled; the futures of later updates are dropped unpolled; the
\* stored future is polled once in every scheduler poll until it has
\* completed and not after; the hook's poll_change always returns Pending.
\* ------------------------------------------------------------------------
C40_FirstFutureOnly ==
    [][\A h \in FutHooks :
          /\ \A n \in Futures :
                n # 1 => /\ fu_polls'[h][n] = 0
                         /\ n \notin fu_done'[h]
                         /\ n <= fu_updates' => n \in fu_dropped'[h]
          /\ 1 \notin fu_dropped'[h]
          /\ (\E ready \in SUBSET FutHooks : FutPoll(ready)) =>
                /\ fu_ret'[h] = "Pending"
                /\ fu_polls'[h][1] = IF 1 \in fu_done[h] THEN fu_polls[h][1]
                                     ELSE fu_polls[h][1] + 1]_vars

\* After three updates the first future of a hook has completed in the
\* second poll and the hook has been polled once more, while the other
\* hook's future is still running.
C40_Witness ==
    /\ fu_updates = 3
    /\ fu_sched = 3
    /\ \E h, g \in FutHooks :
          /\ 1 \in fu_done[h]
          /\ fu_polls[h][1] = 2
          /\ fu_dropped[h] = {2, 3}
          /\ fu_ret[h] = "Pending"
          /\ 1 \notin fu_done[g]
          /\ fu_polls[g][1] = 3

====
